---- MODULE Spec2Model ----
(***************************************************************************)
(* Resumable batch-enrichment pipeline of                                  *)
(* src/data_processing/process_all_entries.py: process_entries drives      *)
(* process_year_entries over the selected years; each batch is annotated   *)
(* (analyze_entries_batch), embedded (get_embeddings_batch), merged and    *)
(* checkpointed to warhol_<year>_batch_<k>.json; a finished year is saved  *)
(* to warhol_<year>_processed.json and merged into                         *)
(* warhol_all_processed.json.  The process can be killed between any two   *)
(* steps; a file that was opened for writing and not finished is torn.     *)
(***************************************************************************)
EXTENDS Integers, Sequences, FiniteSets, TLC

VARIABLES
    entries_file,           \* parsed_entries.json: "ok", "absent" or "invalid"
    call,                   \* one invocation of a service wrapper, by request
    all_entries,            \* load_entries(): the parsed input records
    entries_by_year,        \* group_entries_by_year(all_entries)
    batch_files,            \* warhol_<year>_batch_<k>.json, per year and k
    processed_files,        \* warhol_<year>_processed.json, per year
    cumulative_file,        \* warhol_all_processed.json
    pc,                     \* position of the (single) process
    resume,                 \* args.resume of the current run
    batch_size,             \* args.batch_size of the current run
    years_to_process,       \* years selected by the current run
    yi,                     \* position of the year loop in years_to_process
    all_processed_entries,  \* process_entries' cumulative accumulator
    processed_entries,      \* process_year_entries' accumulator
    start_idx,              \* process_year_entries: last_batch * batch_size
    i,                      \* loop variable of the batch loop
    analysis_results,       \* value returned by analyze_entries_batch
    batch_embeddings,       \* value returned by get_embeddings_batch
    batch_processed,        \* enriched entries of the current batch
    exit_status,            \* status the last run ended with (-1: none yet)
    service,                \* the services: "free", or a fixed table of answers
    hist,                   \* observations of the runs (no program state)
    observed                \* the fields of hist this specification records

\* what no step of the pipeline changes
env == <<entries_file, call, all_entries, entries_by_year, service, observed>>

vars == <<entries_file, call, all_entries, entries_by_year, batch_files, processed_files,
          cumulative_file, pc, resume, batch_size, years_to_process, yi, all_processed_entries,
          processed_entries, start_idx, i, analysis_results,
          batch_embeddings, batch_processed, exit_status, service, hist,
          observed>>

-----------------------------------------------------------------------------
(* Bounds and fixtures *)

\* largest batch size a run may be started with
MaxBatchSize == 2

\* two distinguishable answers of the annotation service for the same text
Versions == {"v1", "v2"}

\* parsed_entries.json: ids are str(entry_count) (parse_entries.py:155),
\* dates are ISO dates of which only the year matters here
Record(id, year) == [id |-> id, date |-> <<year, 1>>]

InputSmall == <<Record("1", 1976), Record("2", 1976), Record("3", 1977)>>

InputThree == <<Record("1", 1976), Record("2", 1976), Record("3", 1976)>>

InputTwo == <<Record("1", 1976), Record("2", 1976)>>

InputFive ==
    <<Record("1", 1976), Record("2", 1976), Record("3", 1976),
      Record("4", 1976), Record("5", 1976)>>

InputPair == <<Record("1", 1976), Record("2", 1977)>>

-----------------------------------------------------------------------------
(* Sequences, Python style *)

Min(a, b) == IF a < b THEN a ELSE b

Max(a, b) == IF a > b THEN a ELSE b

SetMax(S) == CHOOSE x \in S : \A y \in S : y <= x

Range(s) == {s[k] : k \in DOMAIN s}

\* s[lo:hi] of Python for 0-based lo, hi (negative indexes count from the end)
PySlice(s, lo, hi) ==
    LET n  == Len(s)
        l0 == IF lo < 0 THEN Max(n + lo, 0) ELSE Min(lo, n)
        h0 == IF hi < 0 THEN Max(n + hi, 0) ELSE Min(hi, n)
    IN  IF l0 >= h0 THEN <<>> ELSE SubSeq(s, l0 + 1, h0)

\* s[lo:] of Python
PySliceFrom(s, lo) ==
    LET n  == Len(s)
        l0 == IF lo < 0 THEN Max(n + lo, 0) ELSE Min(lo, n)
    IN  IF l0 >= n THEN <<>> ELSE SubSeq(s, l0 + 1, n)

\* a range that leaves out a last element reaching up to n
InRangeStopsEarly(k, n, step) == IF step > 0 THEN k + step < n ELSE k > n

\* i in range(0, n, step), evaluated as Python evaluates it (step # 0)
InRange(k, n, step) == IF step > 0 THEN k < n ELSE k > n

Ids(es) == {es[k].id : k \in DOMAIN es}

IdList(es) == [k \in DOMAIN es |-> es[k].id]

NoDuplicateIds(es) == \A a, b \in DOMAIN es : es[a].id = es[b].id => a = b

-----------------------------------------------------------------------------
(* Input partition *)

YearOf(entry) == entry.date[1]

RECURSIVE GroupFrom(_, _, _)
GroupFrom(entries, k, acc) ==
    IF k > Len(entries) THEN acc
    ELSE LET year == YearOf(entries[k])
             old  == IF year \in DOMAIN acc THEN acc[year] ELSE <<>>
         IN  GroupFrom(entries, k + 1,
                 [y \in DOMAIN acc \cup {year} |->
                     IF y = year THEN Append(old, entries[k]) ELSE acc[y]])

\* entries_by_year: dict year -> list of entries in input order
group_entries_by_year(entries) == GroupFrom(entries, 1, <<>>)

-----------------------------------------------------------------------------
(* JSON values of the annotation service and str() *)

JStr(s) == [t |-> "str", v |-> s]

JInt(n) == [t |-> "int", v |-> n]

Digits == <<"0", "1", "2", "3", "4", "5", "6", "7", "8", "9">>

\* str(x) for the id values that occur: a string is itself, a small integer
\* its decimal digit
PyStr(j) == IF j.t = "int" THEN Digits[j.v + 1] ELSE j.v

IdAsInt(id) == CHOOSE n \in 0..9 : Digits[n + 1] = id

-----------------------------------------------------------------------------
(* Values the two service wrappers hand to process_year_entries *)

None == [none |-> TRUE, val |-> <<>>]

Ret(seq) == [none |-> FALSE, val |-> seq]

\* an "if not x" under which only None is false
FalsyOnlyNone(r) == r.none

\* "if not x": None and the empty list are both false
Falsy(r) == r.none \/ r.val = <<>>

\* what the annotation service derived from the text of one record
Derived(entry, ver) == [of |-> entry.id, ver |-> ver]

GoodItem(entry, ver) ==
    [id |-> JStr(entry.id), emotions |-> Derived(entry, ver),
     topics |-> Derived(entry, ver), entities |-> Derived(entry, ver)]

\* the id echoed as a JSON number
IntIdItem(entry, ver) ==
    [id |-> JInt(IdAsInt(entry.id)), emotions |-> Derived(entry, ver),
     topics |-> Derived(entry, ver), entities |-> Derived(entry, ver)]

\* the id field dropped
NoIdItem(entry, ver) ==
    [emotions |-> Derived(entry, ver), topics |-> Derived(entry, ver),
     entities |-> Derived(entry, ver)]

\* an id that belongs to no record
WrongIdItem(entry, ver) ==
    [id |-> JStr("x"), emotions |-> Derived(entry, ver),
     topics |-> Derived(entry, ver), entities |-> Derived(entry, ver)]

\* the emotions field dropped
NoEmotionsItem(entry, ver) ==
    [id |-> JStr(entry.id), topics |-> Derived(entry, ver),
     entities |-> Derived(entry, ver)]

ItemOf(kind, entry, ver) ==
    CASE kind = "by_id"       -> GoodItem(entry, ver)
      [] kind = "int_id"      -> IntIdItem(entry, ver)
      [] kind = "no_id"       -> NoIdItem(entry, ver)
      [] kind = "wrong_id"    -> WrongIdItem(entry, ver)
      [] kind = "no_emotions" -> NoEmotionsItem(entry, ver)
      [] kind = "reversed"    -> GoodItem(entry, ver)
      [] kind = "short"       -> GoodItem(entry, ver)

Reverse(s) == [k \in DOMAIN s |-> s[Len(s) + 1 - k]]

\* the value analyze_entries_batch returns for a batch, by kind of answer
AnalysisOf(kind, batch, ver) ==
    LET items == [k \in DOMAIN batch |-> ItemOf(kind, batch[k], ver)]
    IN  CASE kind = "none"     -> None
          [] kind = "empty"    -> Ret(<<>>)
          [] kind = "reversed" -> Ret(Reverse(items))
          [] kind = "short"    -> Ret(SubSeq(items, 1, Len(items) - 1))
          [] OTHER             -> Ret(items)

AnalysisKinds ==
    {"none", "empty", "by_id", "int_id", "no_id", "wrong_id", "no_emotions",
     "reversed", "short"}

\* the vector of one text
Vector(entry) == [of |-> entry.id]

\* the value get_embeddings_batch returns for a batch, by kind of answer
EmbeddingsOf(kind, batch) ==
    LET vecs == [k \in DOMAIN batch |-> Vector(batch[k])]
    IN  CASE kind = "none"  -> None
          [] kind = "empty" -> Ret(<<>>)
          [] kind = "short" -> Ret(SubSeq(vecs, 1, Len(vecs) - 1))
          [] kind = "long"  -> Ret(Append(vecs, [of |-> "x"]))
          [] kind = "reversed" -> Ret(Reverse(vecs))
          [] OTHER          -> Ret(vecs)

EmbeddingKinds == {"none", "empty", "ok", "short", "long"}

-----------------------------------------------------------------------------
(* Merge of one batch: process_year_entries, "3. Combine results" *)

\* a search that keeps the last item with the id of the entry
NextMatchLast(results, entry, k) ==
    LET ms == {j \in k..Len(results) :
                  /\ "id" \in DOMAIN results[j]
                  /\ PyStr(results[j].id) = PyStr(JStr(entry.id))}
    IN  [exc |-> FALSE, idx |-> IF ms = {} THEN 0 ELSE SetMax(ms)]

RECURSIVE NextMatch(_, _, _)
\* next((e for e in analysis_results if str(e["id"]) == str(entry["id"])), None)
\* idx = 0 stands for None; e["id"] raises on an item without the key
NextMatch(results, entry, k) ==
    IF k > Len(results) THEN [exc |-> FALSE, idx |-> 0]
    ELSE IF "id" \notin DOMAIN results[k] THEN [exc |-> TRUE, idx |-> 0]
    ELSE IF PyStr(results[k].id) = PyStr(JStr(entry.id))
         THEN [exc |-> FALSE, idx |-> k]
         ELSE NextMatch(results, entry, k + 1)

\* a dict is true unless it is empty
Truthy(item) == DOMAIN item # {}

\* an enriched record that takes its id from the annotation
EnrichedIdFromItem(entry, item, vector) ==
    [id |-> PyStr(item.id), date |-> entry.date, emotions |-> item.emotions,
     topics |-> item.topics, entities |-> item.entities, embedding |-> vector]

Enriched(entry, item, vector) ==
    [id |-> entry.id, date |-> entry.date, emotions |-> item.emotions,
     topics |-> item.topics, entities |-> item.entities, embedding |-> vector]

\* body of the loop "for idx, entry in enumerate(current_batch)" for one
\* entry (idx counts from 0): what it appends to batch_processed, or exc
MergeEntry(entry, idx, results, embeddings) ==
    LET m == NextMatch(results, entry, 1)
    IN  IF m.exc THEN [exc |-> TRUE, out |-> <<>>]
        ELSE IF m.idx = 0 /\ ~(idx < Len(results))
             THEN [exc |-> FALSE, out |-> <<>>]
        ELSE LET item == IF m.idx > 0 THEN results[m.idx]
                         ELSE results[idx + 1]
             IN  IF Truthy(item) /\ idx < Len(embeddings)
                 THEN IF {"emotions", "topics", "entities"} \subseteq DOMAIN item
                      THEN [exc |-> FALSE,
                            out |-> <<Enriched(entry, item, embeddings[idx + 1])>>]
                      ELSE [exc |-> TRUE, out |-> <<>>]
                 ELSE [exc |-> FALSE, out |-> <<>>]

RECURSIVE MergeFrom(_, _, _, _, _)
MergeFrom(batch, k, results, embeddings, acc) ==
    IF k > Len(batch) THEN [exc |-> FALSE, out |-> acc]
    ELSE LET r == MergeEntry(batch[k], k - 1, results, embeddings)
         IN  IF r.exc THEN [exc |-> TRUE, out |-> <<>>]
             ELSE MergeFrom(batch, k + 1, results, embeddings, acc \o r.out)

\* batch_processed for a batch, or the exception that leaves the loop
MergeBatch(batch, results, embeddings) ==
    MergeFrom(batch, 1, results, embeddings, <<>>)

\* processed_entry = entry: the derived fields are assigned to the record
\* of the input itself
ProcessedEntryIsSource(entry) == "source"

\* processed_entry = entry.copy(): the object the derived fields are
\* assigned to is a new dict, not the record of the input
ProcessedEntryObject(entry) == "copy"

\* a record of the input after the body of the merge loop has run for it
\* and appended `out`
SourceAfter(entry, out) ==
    IF out # <<>> /\ ProcessedEntryObject(entry) = "source"
    THEN out[1] ELSE entry

\* the records of a list (all_entries, or a list of entries_by_year, which
\* holds the same objects) after a batch has been merged without exception
SourcesAfterBatch(entries, batch, results, embeddings) ==
    [k \in DOMAIN entries |->
        IF \E j \in DOMAIN batch : batch[j] = entries[k]
        THEN LET j == CHOOSE j \in DOMAIN batch : batch[j] = entries[k]
             IN  SourceAfter(entries[k],
                     MergeEntry(batch[j], j - 1, results, embeddings).out)
        ELSE entries[k]]

-----------------------------------------------------------------------------
(* Files *)

Absent == [st |-> "absent", entries |-> <<>>]

\* opened with open(path, 'w') and not finished: exists, does not parse
Torn == [st |-> "torn", entries |-> <<>>]

\* json.dump({"entries": entries}, f) finished
Saved(entries) == [st |-> "ok", entries |-> entries]

Exists(file) == file.st # "absent"

\* json.load(f).get("entries", []) with "except Exception: []"
LoadOrEmpty(file) == IF file.st = "ok" THEN file.entries ELSE <<>>

\* a check that never finds the processed file
is_year_processed_never(y) == FALSE

\* a check that takes a group for processed only when its file parses
is_year_processed_parsed(y) == processed_files[y].st = "ok"

is_year_processed(y) == Exists(processed_files[y])

load_processed_year(y) == LoadOrEmpty(processed_files[y])

\* the lowest k with a file warhol_<year>_batch_<k>.json, 0 without one
find_first_batch(y) ==
    LET nums == {k \in DOMAIN batch_files[y] : Exists(batch_files[y][k])}
    IN  IF nums = {} THEN 0 ELSE CHOOSE k \in nums : \A j \in nums : k <= j

\* highest k with a file warhol_<year>_batch_<k>.json, 0 without one
find_last_batch(y) ==
    LET nums == {k \in DOMAIN batch_files[y] : Exists(batch_files[y][k])}
    IN  IF nums = {} THEN 0 ELSE SetMax(nums)

RECURSIVE MergeCumulativeFrom(_, _, _)
MergeCumulativeFrom(all, new, k) ==
    IF k > Len(new) THEN all
    ELSE IF new[k].id \in Ids(all)
         THEN MergeCumulativeFrom(all, new, k + 1)
         ELSE MergeCumulativeFrom(Append(all, new[k]), new, k + 1)

\* a merge that appends without looking at the ids
MergeCumulativeNoCheck(all, new) == all \o new

\* a merge that replaces an entry by the new entry with its id
MergeCumulativeOverwrites(all, new) ==
    [k \in DOMAIN all |->
        IF \E j \in DOMAIN new : new[j].id = all[k].id
        THEN new[CHOOSE j \in DOMAIN new : new[j].id = all[k].id]
        ELSE all[k]]
       \o SelectSeq(new, LAMBDA e : e.id \notin Ids(all))

\* "Add to all_processed_entries, avoiding duplicates"
MergeCumulative(all, new) == MergeCumulativeFrom(all, new, 1)

-----------------------------------------------------------------------------
(* State of a run *)

years == DOMAIN entries_by_year

RECURSIVE SortedFrom(_)
SortedFrom(S) ==
    IF S = {} THEN <<>>
    ELSE LET m == CHOOSE x \in S : \A y \in S : x <= y
         IN  <<m>> \o SortedFrom(S \ {m})

\* years.index(y), counted from 0
IndexOf(seq, y) == (CHOOSE k \in DOMAIN seq : seq[k] = y) - 1

\* first and last year of default_range = "1976-1987", and default_year
DefaultStart == 1976

DefaultEnd == 1987

DefaultYear == 1976

\* "start_year, end_year = args.years_range.split('-')" with another number
\* of parts than two raises ValueError
SelectionRaises(args) ==
    /\ ~args.all /\ args.years = <<>>
    /\ args.years_range # <<>> /\ Len(args.years_range) # 2

\* years_to_process for --all, --years a,b,..., --years_range a-b,
\* --start_year a and for no selection at all (<<>> and 0: option not given)
SelectYears(args) ==
    LET sorted == SortedFrom(years)
    IN  IF args.all THEN sorted
        ELSE IF args.years # <<>>
        THEN SelectSeq(args.years, LAMBDA y : y \in years)
        ELSE IF args.years_range # <<>>
        THEN IF args.years_range[1] \in years /\ args.years_range[2] \in years
             THEN PySlice(sorted, IndexOf(sorted, args.years_range[1]),
                          IndexOf(sorted, args.years_range[2]) + 1)
             ELSE <<>>
        ELSE IF args.start_year # 0
        THEN IF args.start_year \in years
             THEN PySliceFrom(sorted, IndexOf(sorted, args.start_year))
             ELSE <<>>
        ELSE LET valid_years ==
                    SelectSeq(sorted,
                              LAMBDA y : y >= DefaultStart /\ y <= DefaultEnd)
             IN  IF valid_years # <<>> THEN valid_years
                 ELSE IF DefaultYear \in years THEN <<DefaultYear>>
                 ELSE <<>>

\* the year the loop "for year in years_to_process" is at
year == years_to_process[yi]

year_entries == entries_by_year[year]

remaining_entries == PySliceFrom(year_entries, start_idx)

current_batch == PySlice(remaining_entries, i, i + batch_size)

\* a batch number that leaves out the loop index
batch_num_of_start == start_idx \div batch_size + 1

batch_num == ((start_idx + i) \div batch_size) + 1

\* positions of a process that has ended: not started or killed, returned,
\* sys.exit(1) of process_entries, sys.exit(1) of load_entries
Stopped == {"idle", "done", "failed", "load_failed"}

Running == {"year", "batch", "embed", "batch_write", "proc_write",
            "cum_open", "cum_write"}

\* the locals of a process that is not running
NoLocals ==
    /\ resume' = FALSE
    /\ batch_size' = 1
    /\ years_to_process' = <<>>
    /\ yi' = 1
    /\ all_processed_entries' = <<>>
    /\ processed_entries' = <<>>
    /\ start_idx' = 0
    /\ i' = 0
    /\ analysis_results' = None
    /\ batch_embeddings' = None
    /\ batch_processed' = <<>>

\* the locals of the current batch
batch_locals == <<analysis_results, batch_embeddings, batch_processed>>

NoFiles == UNCHANGED <<batch_files, processed_files, cumulative_file>>

\* the services answer freely, or by a fixed table year -> batch number -> answer
Free == [free |-> TRUE, table |-> <<>>]

Fixed(table) == [free |-> FALSE, table |-> table]

HistInit(ys) ==
    [attempted |-> {}, sizes |-> {},
     n_analyze |-> [y \in ys |-> 0], n_embed |-> [y \in ys |-> 0],
     all_ok |-> TRUE, skipped |-> {}, cum_start |-> <<>>,
     proc_at_start |-> {}, killed |-> FALSE,
     cum_before |-> {}, batches |-> <<>>, events |-> <<>>, passed |-> {},
     runs |-> 0, finished |-> [n |-> 0, entries |-> {}],
     inflight |-> [set |-> FALSE, year |-> 0, num |-> 0, size |-> 0,
                   prev |-> <<>>, entries |-> <<>>]]

\* hist with the fields that are not observed left at their initial value
Observe(h) ==
    [f \in DOMAIN h |->
        IF f \in observed THEN h[f] ELSE HistInit(years)[f]]

\* the observations of one run, forgotten when the next run starts
NewRun(h) ==
    [h EXCEPT !.n_analyze = HistInit(years).n_analyze,
              !.n_embed = HistInit(years).n_embed,
              !.all_ok = TRUE, !.skipped = {}, !.cum_start = <<>>,
              !.proc_at_start = {}, !.cum_before = {}, !.batches = <<>>,
              !.events = <<>>, !.finished = HistInit(years).finished]

\* process_year_entries has returned these entries for one more group
GroupFinished(entries) ==
    [hist EXCEPT !.finished = [n |-> @.n + 1,
                               entries |-> @.entries \cup Range(entries)]]

\* no invocation of a service wrapper is under way
NoCall == [fn |-> "none", outcomes |-> <<>>, retry |-> 0, requests |-> 0,
           st |-> "none", ret |-> "none", sleeps |-> <<>>,
           site |-> [pc |-> "idle", num |-> 0],
           body |-> [t |-> "none", fields |-> <<>>, v |-> ""],
           value |-> [t |-> "none", v |-> ""]]

InitWith(input, svc, obs) ==
    /\ entries_file = "ok"
    /\ call = NoCall
    /\ all_entries = input
    /\ entries_by_year = group_entries_by_year(input)
    /\ batch_files = [y \in DOMAIN group_entries_by_year(input) |->
                        [k \in 1..Len(group_entries_by_year(input)[y]) |-> Absent]]
    /\ processed_files = [y \in DOMAIN group_entries_by_year(input) |-> Absent]
    /\ cumulative_file = Absent
    /\ pc = "idle"
    /\ resume = FALSE
    /\ batch_size = 1
    /\ years_to_process = <<>>
    /\ yi = 1
    /\ all_processed_entries = <<>>
    /\ processed_entries = <<>>
    /\ start_idx = 0
    /\ i = 0
    /\ analysis_results = None
    /\ batch_embeddings = None
    /\ batch_processed = <<>>
    /\ exit_status = -1
    /\ service = svc
    /\ hist = HistInit(DOMAIN group_entries_by_year(input))
    /\ observed = obs

-----------------------------------------------------------------------------
(* process_entries *)

\* process_entries up to the year loop: selection, batch size, cumulative file
StartRun(args) ==
    /\ pc \in Stopped
    /\ entries_file = "ok"
    /\ resume' = args.resume
    /\ batch_size' = args.batch_size
    /\ years_to_process' =
          IF SelectionRaises(args) THEN <<>> ELSE SelectYears(args)
    /\ yi' = 1
    /\ all_processed_entries' =
          IF args.resume /\ Exists(cumulative_file)
                /\ ~SelectionRaises(args) /\ SelectYears(args) # <<>>
          THEN LoadOrEmpty(cumulative_file) ELSE <<>>
    /\ processed_entries' = <<>>
    /\ start_idx' = 0
    /\ i' = 0
    /\ analysis_results' = None
    /\ batch_embeddings' = None
    /\ batch_processed' = <<>>
    /\ IF SelectionRaises(args)
       THEN pc' = "failed" /\ exit_status' = 1
       ELSE IF SelectYears(args) = <<>>
       THEN pc' = "done" /\ exit_status' = 0
       ELSE pc' = "year" /\ exit_status' = -1
    /\ hist' = Observe([NewRun(hist) EXCEPT
          !.sizes = @ \cup {args.batch_size},
          !.cum_start = IF args.resume /\ Exists(cumulative_file)
                        THEN LoadOrEmpty(cumulative_file) ELSE <<>>,
          !.cum_before = Ids(LoadOrEmpty(cumulative_file)),
          !.passed = IF args.resume THEN @ ELSE {},
          !.runs = @ + 1,
          !.inflight = IF /\ pc = "idle" /\ exit_status = 137 /\ args.resume
                          /\ args.batch_size = @.size
                       THEN @ ELSE HistInit(years).inflight,
          !.proc_at_start = {y \in years : Exists(processed_files[y])}])
    /\ NoFiles
    /\ UNCHANGED env

\* a status that lets the caller go on
LoadExitZero(file) == 0

\* load_entries: sys.exit(1) for a file that is absent or is not valid JSON
LoadExit(file) ==
    CASE file = "absent"  -> 1
      [] file = "invalid" -> 1
      [] OTHER            -> 0

\* process_entries ends in load_entries: nothing was selected, read or written
LoadFails ==
    /\ pc \in Stopped
    /\ entries_file # "ok"
    /\ pc' = "load_failed"
    /\ exit_status' = LoadExit(entries_file)
    /\ NoLocals
    /\ NoFiles
    /\ hist' = Observe(NewRun(hist))
    /\ UNCHANGED env

\* between two runs parsed_entries.json is removed, damaged or restored
InputChanges(kinds) ==
    /\ pc \in Stopped
    /\ entries_file' \in kinds \ {entries_file}
    /\ NoFiles
    /\ UNCHANGED <<call, all_entries, entries_by_year, service, observed, pc,
                   resume, batch_size, years_to_process, yi,
                   all_processed_entries, processed_entries, start_idx, i,
                   batch_locals, exit_status, hist>>

\* the year loop is exhausted: "ALL PROCESSING COMPLETE", status 0
AllYearsDone ==
    /\ pc = "year"
    /\ yi > Len(years_to_process)
    /\ pc' = "done"
    /\ exit_status' = 0
    /\ NoFiles
    /\ UNCHANGED <<resume, batch_size, years_to_process, yi,
                   all_processed_entries, processed_entries, start_idx, i,
                   batch_locals, hist, env>>

\* "Skip already processed years if we already have entries for them"
SkipYear ==
    /\ pc = "year"
    /\ yi <= Len(years_to_process)
    /\ resume /\ is_year_processed(year)
    /\ Ids(year_entries) \subseteq Ids(all_processed_entries)
    /\ yi' = yi + 1
    /\ NoFiles
    /\ UNCHANGED <<pc, resume, batch_size, years_to_process,
                   all_processed_entries, processed_entries, start_idx, i,
                   batch_locals, exit_status, hist, env>>

YearNotSkipped ==
    /\ pc = "year"
    /\ yi <= Len(years_to_process)
    /\ ~(resume /\ is_year_processed(year)
         /\ Ids(year_entries) \subseteq Ids(all_processed_entries))

\* process_year_entries returns load_processed_year(year) at once; the
\* caller merges it into the cumulative accumulator
ReuseYear ==
    /\ YearNotSkipped
    /\ resume /\ is_year_processed(year)
    /\ processed_entries' = load_processed_year(year)
    /\ all_processed_entries' =
          MergeCumulative(all_processed_entries, load_processed_year(year))
    /\ pc' = "cum_open"
    /\ NoFiles
    /\ hist' = Observe(GroupFinished(load_processed_year(year)))
    /\ UNCHANGED <<resume, batch_size, years_to_process, yi,
                   start_idx, i, batch_locals, exit_status, env>>

\* a resume that finds the last batch and forgets to load its entries
ResumePointDropsEntries(y, res) ==
    [last_batch |-> IF res THEN find_last_batch(y) ELSE 0, entries |-> <<>>]

\* a resume that falls back to the highest partial file that loads
ResumePointFallsBack(y, res) ==
    LET nums == {k \in DOMAIN batch_files[y] : batch_files[y][k].st = "ok"}
        found == IF res /\ nums # {} THEN SetMax(nums) ELSE 0
    IN  IF found > 0
        THEN [last_batch |-> found, entries |-> batch_files[y][found].entries]
        ELSE [last_batch |-> 0, entries |-> <<>>]

\* a resume point that is looked up whether or not resume is enabled
ResumePointAlways(y, res) ==
    LET found == find_last_batch(y)
    IN  IF found > 0 /\ batch_files[y][found].st = "ok"
        THEN [last_batch |-> found, entries |-> batch_files[y][found].entries]
        ELSE [last_batch |-> 0, entries |-> <<>>]

\* "Find the last batch processed if resuming": last_batch and the entries
\* loaded from its file; a file that does not load resets both
ResumePoint(y, res) ==
    LET found == IF res THEN find_last_batch(y) ELSE 0
    IN  IF found > 0 /\ batch_files[y][found].st = "ok"
        THEN [last_batch |-> found, entries |-> batch_files[y][found].entries]
        ELSE [last_batch |-> 0, entries |-> <<>>]

\* a resume that goes over the last saved batch once more
StartIndexRedoesBatch(last_batch, size) == Max(last_batch - 1, 0) * size

\* a resume that starts one batch too far
StartIndexSkipsBatch(last_batch, size) == (last_batch + 1) * size

\* start_idx = last_batch * batch_size
StartIndex(last_batch, size) == last_batch * size

\* process_year_entries up to the batch loop: resume point, start_idx;
\* range(0, n, 0) raises ValueError, which process_entries turns into exit(1)
BeginYear ==
    /\ YearNotSkipped
    /\ ~(resume /\ is_year_processed(year))
    /\ LET point == ResumePoint(year, resume)
       IN  /\ processed_entries' = point.entries
           /\ start_idx' = StartIndex(point.last_batch, batch_size)
    /\ i' = 0
    /\ IF batch_size = 0
       THEN pc' = "failed" /\ exit_status' = 1
       ELSE pc' = "batch" /\ UNCHANGED exit_status
    /\ NoFiles
    /\ UNCHANGED <<resume, batch_size, years_to_process, yi,
                   all_processed_entries, batch_locals, hist, env>>

-----------------------------------------------------------------------------
(* process_year_entries: the batch loop *)

\* answers that carry a complete annotation for every record of the batch
GoodAnalysisKinds == {"by_id", "int_id", "reversed"}

AnswersAnalysis(kind, ver) ==
    \/ service.free
    \/ /\ ~service.free
       /\ service.table[year][batch_num].a = kind
       /\ service.table[year][batch_num].ver = ver

AnswersEmbeddings(kind) ==
    \/ service.free
    \/ /\ ~service.free
       /\ service.table[year][batch_num].e = kind

\* the value a wrapper returned is a list with at least one element
NonEmpty(r) == ~r.none /\ Len(r.val) > 0

\* one step of the loop body for the history: the call or write `op` of the
\* current batch, whether its value passed the "if not ..." test, and for a
\* write the entries dumped
Event(op, ok, entries) ==
    [op |-> op, year |-> year, num |-> batch_num, ok |-> ok,
     entries |-> entries]

\* a loop that takes the same slice again
NextBatchStays ==
    /\ i' = i
    /\ analysis_results' = None
    /\ batch_embeddings' = None
    /\ batch_processed' = <<>>
    /\ pc' = "batch"

NextBatch ==
    /\ i' = i + batch_size
    /\ analysis_results' = None
    /\ batch_embeddings' = None
    /\ batch_processed' = <<>>
    /\ pc' = "batch"

\* "1. Get comprehensive analysis": analyze_entries_batch returns ret (good:
\* a complete annotation for every record) and "if not analysis_results"
AnalyzeReturns(ret, good) ==
    /\ pc = "batch"
    /\ InRange(i, Len(remaining_entries), batch_size)
    /\ IF Falsy(ret)
       THEN /\ NextBatch
            /\ hist' = Observe([hist EXCEPT
                  !.attempted = @ \cup Ids(current_batch),
                  !.n_analyze[year] = @ + 1,
                  !.all_ok = FALSE,
                  !.skipped = @ \cup {year},
                  !.events = Append(@, Event("analyze", NonEmpty(ret), <<>>)),
                  !.batches = Append(@, [year |-> year, num |-> batch_num,
                                         entries |-> current_batch])])
       ELSE /\ analysis_results' = ret
            /\ UNCHANGED <<batch_embeddings, batch_processed>>
            /\ pc' = "embed"
            /\ i' = i
            /\ hist' = Observe([hist EXCEPT
                  !.attempted = @ \cup Ids(current_batch),
                  !.n_analyze[year] = @ + 1,
                  !.all_ok = @ /\ good,
                  !.events = Append(@, Event("analyze", NonEmpty(ret), <<>>)),
                  !.batches = Append(@, [year |-> year, num |-> batch_num,
                                         entries |-> current_batch])])
    /\ NoFiles
    /\ UNCHANGED <<resume, batch_size, years_to_process, yi,
                   all_processed_entries, processed_entries, start_idx,
                   exit_status, env>>

\* the same for an answer of one of the kinds
AnalyzeBatch(kind, ver) ==
    /\ pc = "batch"
    /\ InRange(i, Len(remaining_entries), batch_size)
    /\ AnswersAnalysis(kind, ver)
    /\ AnalyzeReturns(AnalysisOf(kind, current_batch, ver),
                      kind \in GoodAnalysisKinds)

\* "2. Get embeddings" and "3. Combine results", up to the open(..., 'w') of
\* the interim file; an exception of the merge ends the process with status 1
EmbedReturns(ret, good) ==
    /\ pc = "embed"
    /\ LET m == MergeBatch(current_batch, analysis_results.val, ret.val)
       IN  IF Falsy(ret)
           THEN /\ NextBatch
                /\ NoFiles
                /\ UNCHANGED <<processed_entries, exit_status, all_entries,
                               entries_by_year>>
                /\ hist' = Observe([hist EXCEPT
                      !.n_embed[year] = @ + 1,
                      !.all_ok = FALSE,
                      !.events = Append(@, Event("embed", NonEmpty(ret), <<>>)),
                      !.skipped = @ \cup {year}])
           ELSE IF m.exc
           THEN /\ pc' = "failed"
                /\ exit_status' = 1
                /\ batch_embeddings' = ret
                /\ NoFiles
                /\ UNCHANGED <<processed_entries, i, analysis_results,
                               batch_processed, all_entries, entries_by_year>>
                /\ hist' = Observe([hist EXCEPT
                      !.n_embed[year] = @ + 1,
                      !.events = Append(@, Event("embed", NonEmpty(ret), <<>>)),
                      !.all_ok = FALSE])
           ELSE /\ batch_embeddings' = ret
                /\ batch_processed' = m.out
                /\ processed_entries' = processed_entries \o m.out
                /\ all_entries' =
                      SourcesAfterBatch(all_entries, current_batch,
                                        analysis_results.val, ret.val)
                /\ entries_by_year' =
                      [y \in years |->
                          SourcesAfterBatch(entries_by_year[y], current_batch,
                                            analysis_results.val, ret.val)]
                /\ batch_files' = [batch_files EXCEPT ![year][batch_num] = Torn]
                /\ pc' = "batch_write"
                /\ UNCHANGED <<processed_files, cumulative_file, i,
                               analysis_results, exit_status>>
                /\ hist' = Observe([hist EXCEPT
                      !.n_embed[year] = @ + 1,
                      !.events = Append(@, Event("embed", NonEmpty(ret), <<>>)),
                      !.all_ok = @ /\ good])
    /\ UNCHANGED <<resume, batch_size, years_to_process, yi,
                   all_processed_entries, start_idx, entries_file, call,
                   service, observed>>

\* the same for an answer of one of the kinds
EmbedBatch(kind) ==
    /\ pc = "embed"
    /\ AnswersEmbeddings(kind)
    /\ EmbedReturns(EmbeddingsOf(kind, current_batch), kind = "ok")

\* for the history: the records of the batches of the current group that
\* this run skipped before the batch whose partial file is now written, with
\* the batch size of the run and the number of the batch written
PassedBy(h) ==
    LET written == {h.events[k].num : k \in
                      {j \in DOMAIN h.events : /\ h.events[j].op = "write"
                                               /\ h.events[j].year = year}}
        skipped == {k \in DOMAIN h.batches : /\ h.batches[k].year = year
                                             /\ h.batches[k].num < batch_num
                                             /\ h.batches[k].num \notin written}
    IN  {[id |-> id, year |-> year, size |-> batch_size, num |-> batch_num] :
            id \in UNION {Ids(h.batches[k].entries) : k \in skipped}}

\* json.dump of the interim file finishes; the loop goes to the next batch
WriteBatch ==
    /\ pc = "batch_write"
    /\ batch_files' = [batch_files EXCEPT
          ![year][batch_num] = Saved(processed_entries)]
    /\ NextBatch
    /\ hist' = Observe([hist EXCEPT
          !.events = Append(@, Event("write", TRUE, processed_entries)),
          !.passed = @ \cup PassedBy(hist)])
    /\ UNCHANGED <<processed_files, cumulative_file, resume,
                   batch_size, years_to_process, yi, all_processed_entries,
                   processed_entries, start_idx, exit_status, env>>

\* the batch loop is exhausted: open(final_file, 'w')
FinishYear ==
    /\ pc = "batch"
    /\ ~InRange(i, Len(remaining_entries), batch_size)
    /\ processed_files' = [processed_files EXCEPT ![year] = Torn]
    /\ pc' = "proc_write"
    /\ UNCHANGED <<batch_files, cumulative_file, resume,
                   batch_size, years_to_process, yi, all_processed_entries,
                   processed_entries, start_idx, i, batch_locals,
                   exit_status, hist, env>>

\* json.dump of the processed file finishes, process_year_entries returns and
\* the caller merges the result into the cumulative accumulator
WriteProcessed ==
    /\ pc = "proc_write"
    /\ processed_files' = [processed_files EXCEPT
          ![year] = Saved(processed_entries)]
    /\ all_processed_entries' =
          MergeCumulative(all_processed_entries, processed_entries)
    /\ pc' = "cum_open"
    /\ hist' = Observe(GroupFinished(processed_entries))
    /\ UNCHANGED <<batch_files, cumulative_file, resume,
                   batch_size, years_to_process, yi, processed_entries,
                   start_idx, i, batch_locals, exit_status, env>>

\* open(cumulative_file, 'w')
OpenCumulative ==
    /\ pc = "cum_open"
    /\ cumulative_file' = Torn
    /\ pc' = "cum_write"
    /\ UNCHANGED <<batch_files, processed_files, resume,
                   batch_size, years_to_process, yi, all_processed_entries,
                   processed_entries, start_idx, i, batch_locals,
                   exit_status, hist, env>>

\* a dump of the group's result in place of the accumulator
WriteCumulativeGroupOnly ==
    /\ pc = "cum_write"
    /\ cumulative_file' = Saved(processed_entries)
    /\ yi' = yi + 1
    /\ pc' = "year"
    /\ processed_entries' = <<>>
    /\ start_idx' = 0
    /\ i' = 0
    /\ UNCHANGED <<batch_files, processed_files, resume,
                   batch_size, years_to_process, all_processed_entries,
                   batch_locals, exit_status, hist, env>>

\* json.dump of the cumulative file finishes; next year
WriteCumulative ==
    /\ pc = "cum_write"
    /\ cumulative_file' = Saved(all_processed_entries)
    /\ yi' = yi + 1
    /\ pc' = "year"
    /\ processed_entries' = <<>>
    /\ start_idx' = 0
    /\ i' = 0
    /\ UNCHANGED <<batch_files, processed_files, resume,
                   batch_size, years_to_process, all_processed_entries,
                   batch_locals, exit_status, hist, env>>

\* the process is killed at one of the positions in `at`
Kill(at) ==
    /\ pc \in at
    /\ pc' = "idle"
    /\ exit_status' = 137
    /\ NoLocals
    /\ NoFiles
    /\ hist' = Observe([NewRun(hist) EXCEPT
          !.killed = TRUE,
          !.inflight =
             IF /\ pc \in {"batch", "embed"}
                /\ InRange(i, Len(remaining_entries), batch_size)
                /\ batch_num - 1 \in DOMAIN batch_files[year]
                /\ batch_files[year][batch_num - 1].st = "ok"
             THEN [set |-> TRUE, year |-> year, num |-> batch_num,
                   size |-> batch_size,
                   prev |-> batch_files[year][batch_num - 1].entries,
                   entries |-> current_batch]
             ELSE HistInit(years).inflight])
    /\ UNCHANGED env

-----------------------------------------------------------------------------------------------------------------------------------------------------
(* One step of the pipeline, for given sets of run arguments, service
   answers and kill positions *)

Step(argset, akinds, versions, ekinds, kill_at) ==
    \/ \E args \in argset : StartRun(args)
    \/ AllYearsDone
    \/ SkipYear
    \/ ReuseYear
    \/ BeginYear
    \/ \E kind \in akinds, ver \in versions : AnalyzeBatch(kind, ver)
    \/ \E kind \in ekinds : EmbedBatch(kind)
    \/ WriteBatch
    \/ FinishYear
    \/ WriteProcessed
    \/ OpenCumulative
    \/ WriteCumulative
    \/ Kill(kill_at)

\* --years a,b,... with any resume flag and a batch size of sizes
ArgsOver(yearlists, sizes) ==
    [all : {FALSE}, years : yearlists, years_range : {<<>>}, start_year : {0},
     resume : BOOLEAN, batch_size : sizes]

\* --all with any resume flag and a batch size of sizes
ArgsAll(sizes) ==
    [all : {TRUE}, years : {<<>>}, years_range : {<<>>}, start_year : {0},
     resume : BOOLEAN, batch_size : sizes]

\* --years_range a-b (the parts of the option split at '-')
ArgsRange(ranges, sizes) ==
    [all : {FALSE}, years : {<<>>}, years_range : ranges, start_year : {0},
     resume : BOOLEAN, batch_size : sizes]

\* --start_year a
ArgsFrom(starts, sizes) ==
    [all : {FALSE}, years : {<<>>}, years_range : {<<>>}, start_year : starts,
     resume : BOOLEAN, batch_size : sizes]

\* no selection option
ArgsDefault(sizes) ==
    [all : {FALSE}, years : {<<>>}, years_range : {<<>>}, start_year : {0},
     resume : BOOLEAN, batch_size : sizes]

-----------------------------------------------------------------------------------------------------------------------------------------------------
(* Spec: one year of two records; in each run any resume flag, any batch
   size from 1 to MaxBatchSize and the year listed once or twice; any answer
   of the services, well-formed or not; kills anywhere *)

Init ==
    InitWith(InputTwo, Free, {"attempted", "sizes", "all_ok", "killed"})

Next ==
    Step(ArgsOver({<<1976>>, <<1976, 1976>>}, 1..MaxBatchSize),
         {"none", "empty", "by_id", "no_id", "no_emotions"}, {"v1"},
         {"none", "ok", "short", "long"}, Running)

Spec == Init /\ [][Next]_vars

\* the batch files the model provides cover every batch number a run writes
BatchNumbersInRange ==
    pc = "batch_write" => batch_num \in DOMAIN batch_files[year]

\* every record of group y was in a batch handed to analyze_entries_batch
AllAttempted(y) == Ids(entries_by_year[y]) \subseteq hist.attempted

\* a process that is writing a processed file has exhausted its batch loop
LoopExhausted ==
    pc = "proc_write" => ~InRange(i, Len(remaining_entries), batch_size)

\* C4 (as amended): over any sequence of runs that all use the same positive
\* batch size (any resume flags, kills anywhere), if the processed file of a
\* group exists then every record of the group belongs to a batch for which
\* analyze_entries_batch was invoked in this or an earlier run, and the
\* process that opens the file has exhausted its batch loop.
C4_MarkerAfterAllBatchesSameSize ==
    /\ Cardinality(hist.sizes) <= 1 =>
          \A y \in years : Exists(processed_files[y]) => AllAttempted(y)
    /\ LoopExhausted

\* C4 witness: a run resumed from a partial file has written the processed
\* file, all runs so far having used one batch size
C4_Witness ==
    /\ pc = "cum_open" /\ resume /\ start_idx > 0
    /\ Cardinality(hist.sizes) = 1
    /\ processed_files[year].st = "ok"
    /\ AllAttempted(year)

\* C4 as stated: the same for any positive batch size in each run
C4_MarkerAfterAllBatches ==
    /\ \A y \in years : Exists(processed_files[y]) => AllAttempted(y)
    /\ LoopExhausted

\* C2 as stated: when a run with resume enabled ends normally after an
\* earlier run was killed, every service call of this run having succeeded
\* and all runs having used the same batch size, the cumulative file holds
\* an enriched record for every record of every selected year.
C2_ResumableAfterAnyStop ==
    (/\ pc = "done" /\ resume /\ hist.killed /\ hist.all_ok
     /\ Cardinality(hist.sizes) = 1)
    => /\ cumulative_file.st = "ok"
       /\ \A k \in DOMAIN years_to_process :
             Ids(entries_by_year[years_to_process[k]])
                \subseteq Ids(cumulative_file.entries)

\* get_embeddings_batch returned a non-empty list of another length than
\* the batch
EmbeddingsMismatch ==
    /\ pc \in {"batch_write", "failed"}
    /\ ~Falsy(batch_embeddings)
    /\ Len(batch_embeddings.val) # Len(current_batch)

\* C7 as stated: when get_embeddings_batch returns a non-empty list whose
\* length differs from the number of records of the batch, no record of the
\* batch is enriched and the batch is not checkpointed.
C7_SkipOnMismatch ==
    EmbeddingsMismatch => batch_processed = <<>> /\ pc # "batch_write"

\* the annotation array has one item per record, in order, without ids, and
\* the embeddings are one per record
OrderedAnswerWithoutIds ==
    /\ pc \in {"batch_write", "failed"}
    /\ Len(analysis_results.val) = Len(current_batch)
    /\ \A k \in DOMAIN analysis_results.val :
          /\ "id" \notin DOMAIN analysis_results.val[k]
          /\ {"emotions", "topics", "entities"}
                \subseteq DOMAIN analysis_results.val[k]
    /\ Len(batch_embeddings.val) = Len(current_batch)

\* C8 as stated: when the annotation array has one item per record in batch
\* order and its items carry no id field, the merge attaches the annotation
\* at position idx to the record at position idx and includes every record
\* of the batch.
C8_CorrelationFallback ==
    OrderedAnswerWithoutIds =>
       /\ pc = "batch_write"
       /\ Len(batch_processed) = Len(current_batch)
       /\ \A k \in DOMAIN batch_processed :
             /\ batch_processed[k].id = current_batch[k].id
             /\ batch_processed[k].emotions = analysis_results.val[k].emotions

\* C9 as stated: whatever the services return for a batch, the process does
\* not exit because of it (every run of Spec has a batch size of at least 1
\* and a readable input, so nothing else ends a run with status 1).
C9_ServiceFailuresContained == pc # "failed" /\ exit_status # 1

-----------------------------------------------------------------------------
(* SpecCumulative: two years of one record each; in each run any resume
   flag and any selection of the years (--all, one year, both in either
   order, one year twice); two distinguishable annotation answers; kills
   anywhere *)

InitCumulative ==
    InitWith(InputPair, Free,
             {"n_analyze", "n_embed", "cum_start", "proc_at_start",
              "finished"})

NextCumulative ==
    Step(ArgsAll({MaxBatchSize})
            \cup ArgsOver({<<1976>>, <<1977>>, <<1977, 1976>>, <<1977, 1977>>},
                          {MaxBatchSize}),
         {"none", "by_id", "no_id"}, Versions, {"none", "ok", "short"},
         Running)

SpecCumulative == InitCumulative /\ [][NextCumulative]_vars

\* the first entry of es with the given id
FirstWithId(es, id) ==
    es[CHOOSE k \in DOMAIN es :
          es[k].id = id /\ \A j \in 1..(k - 1) : es[j].id # id]

\* the selected years whose processed file existed when the run started
ReusedYears == Range(years_to_process) \cap hist.proc_at_start

\* a run with resume enabled makes no service call for a year whose
\* processed file existed when it started
NoCallsForReusedYears ==
    (resume /\ pc \in Running \cup {"done", "failed"}) =>
       \A y \in hist.proc_at_start :
          hist.n_analyze[y] = 0 /\ hist.n_embed[y] = 0

\* C5 (as amended): when a group's processed file exists and the run has
\* resume enabled, the run makes no call to analyze_entries_batch or
\* get_embeddings_batch for that group, and at the end of the run the
\* cumulative output holds an entry for every id of the processed file: the
\* entry the cumulative file already held for that id when the run started,
\* if it held one, and otherwise the (first) entry of the processed file
\* with that id, verbatim.
C5_CompleteGroupReused ==
    /\ NoCallsForReusedYears
    /\ (pc = "done" /\ resume) =>
          \A y \in ReusedYears :
             \A id \in Ids(processed_files[y].entries) :
                /\ id \in Ids(cumulative_file.entries)
                /\ FirstWithId(cumulative_file.entries, id) =
                      IF id \in Ids(hist.cum_start)
                      THEN FirstWithId(hist.cum_start, id)
                      ELSE FirstWithId(processed_files[y].entries, id)

\* C5 witness: a run with resume enabled has ended after taking the entries
\* of an existing processed file into a cumulative output that lacked them
C5_Witness ==
    /\ pc = "done" /\ resume
    /\ \E y \in ReusedYears :
          /\ processed_files[y].entries # <<>>
          /\ Ids(processed_files[y].entries) \cap Ids(hist.cum_start) = {}
          /\ Ids(processed_files[y].entries) \subseteq Ids(cumulative_file.entries)

\* C5 as stated: ... and every entry of the processed file appears verbatim
\* in the cumulative output at the end of the run.
C5_CompleteGroupReusedVerbatim ==
    /\ NoCallsForReusedYears
    /\ (pc = "done" /\ resume) =>
          \A y \in ReusedYears :
             Range(processed_files[y].entries)
                \subseteq Range(cumulative_file.entries)

\* C6: after every write of the cumulative file, in every run of any
\* sequence of runs, no two entries of the cumulative output have the same
\* id (nor have two entries of the accumulator it is written from).
C6_NoDuplicateIds ==
    /\ cumulative_file.st = "ok" => NoDuplicateIds(cumulative_file.entries)
    /\ NoDuplicateIds(all_processed_entries)

\* C6 witness: a run without resume that lists one year twice has written
\* the cumulative file after the second pass over the year
C6_Witness ==
    /\ pc = "year" /\ yi = 3 /\ ~resume
    /\ years_to_process[1] = years_to_process[2]
    /\ cumulative_file.st = "ok"
    /\ Len(cumulative_file.entries) = 1

-----------------------------------------------------------------------------
(* SpecResume: one year of three records; the services answer each batch
   by a fixed table, the same way in every run; every run uses the batch
   size of the first run; a run is killed only between batches, that is
   right after its last partial-batch file was written *)

BatchAnswers ==
    [a : {"by_id", "empty", "short"}, ver : {"v1"}, e : {"ok", "none", "short"}]

AnswerTables == [{1976} -> [1..Len(InputThree) -> BatchAnswers]]

InitResume ==
    \E table \in AnswerTables :
       InitWith(InputThree, Fixed(table), {"sizes", "skipped", "killed"})

NextResume ==
    Step({args \in ArgsOver({<<1976>>}, 1..MaxBatchSize) :
             hist.sizes \subseteq {args.batch_size}},
         {"by_id", "empty", "short"}, {"v1"}, {"ok", "none", "short"},
         {"batch"})

SpecResume == InitResume /\ [][NextResume]_vars

RECURSIVE FullRunFrom(_, _, _, _)
\* the accumulator of one uninterrupted fresh run of process_year_entries
\* over group y with batch size n, from batch k on
FullRunFrom(y, n, k, acc) ==
    LET group == entries_by_year[y]
        batch == PySlice(group, (k - 1) * n, k * n)
        ans   == service.table[y][k]
        a     == AnalysisOf(ans.a, batch, ans.ver)
        e     == EmbeddingsOf(ans.e, batch)
    IN  IF (k - 1) * n >= Len(group) THEN acc
        ELSE IF Falsy(a) \/ Falsy(e) THEN FullRunFrom(y, n, k + 1, acc)
        ELSE FullRunFrom(y, n, k + 1,
                         acc \o MergeBatch(batch, a.val, e.val).out)

FullRun(y, n) == FullRunFrom(y, n, 1, <<>>)

\* C1: for a fixed input, a fixed batch size and services that answer each
\* batch the same way in every run, whenever the processed file of a group
\* has been written - by a run that started fresh or by a run that resumed
\* after an earlier run was stopped right after writing the partial file of
\* any batch k - it holds exactly the entries (same ids, same contents, same
\* order) of one uninterrupted run over the whole group.
C1_IdempotentResume ==
    \A y \in years :
       processed_files[y].st = "ok" =>
          \A n \in hist.sizes : processed_files[y].entries = FullRun(y, n)

\* C1 witness: after a kill, a run resumed from the partial file of a batch
\* has written a processed file with all three records
C1_Witness ==
    /\ pc = "cum_open" /\ resume /\ hist.killed /\ start_idx > 0
    /\ processed_files[year].st = "ok"
    /\ Len(processed_files[year].entries) = 3

\* batch 1 of two records succeeds, batch 2 gets an empty annotation array
FailedLastBatchScenario ==
    /\ batch_size = 2
    /\ service.table[1976][1].a = "by_id" /\ service.table[1976][1].e = "ok"
    /\ service.table[1976][2].a = "empty"

\* C3 as stated: with batch size 2 and a group of 3 records, when batch 1
\* succeeds and analyze_entries_batch returns empty for batch 2, the run
\* ends with the partial-batch-1 file holding exactly the two enriched
\* records of batch 1 and with no processed file for the group; in general
\* no processed file is written for a group in a run in which one of its
\* batches was skipped.
C3_FailedBatchLeavesGroupIncomplete ==
    /\ (pc = "done" /\ FailedLastBatchScenario) =>
          /\ batch_files[1976][1].st = "ok"
          /\ IdList(batch_files[1976][1].entries) = <<"1", "2">>
          /\ ~Exists(processed_files[1976])
    /\ pc = "proc_write" => year \notin hist.skipped

-----------------------------------------------------------------------------
(* SpecConfig: one year of two records; batch sizes from -1 to 1, any resume
   flag; kills anywhere *)

InitConfig == InitWith(InputTwo, Free, {"n_analyze", "n_embed"})

NextConfig ==
    Step(ArgsOver({<<1976>>}, -1..1), {"none", "by_id"}, {"v1"},
         {"none", "ok"}, Running)

SpecConfig == InitConfig /\ [][NextConfig]_vars

\* C10 as stated: with a batch size below 1 the run makes no call to
\* analyze_entries_batch or get_embeddings_batch, opens no partial-batch,
\* processed or cumulative file for writing and does not end with status 0.
C10_InvalidBatchSizeFatal ==
    (batch_size < 1 /\ pc \in Running \cup {"done", "failed"}) =>
       /\ \A y \in years : hist.n_analyze[y] = 0 /\ hist.n_embed[y] = 0
       /\ pc \notin {"batch_write", "proc_write", "cum_write", "done"}
       /\ exit_status # 0

-----------------------------------------------------------------------------
(* SpecSelect: an input with the years 1976 and 1977 or with the year 1975
   only; every kind of selection, satisfiable or not; the input file can be
   removed or damaged between runs; the annotation service can answer with
   foreign ids; kills anywhere *)

InputOld == <<Record("1", 1975)>>

InitSelect ==
    \E input \in {InputPair, InputOld} :
       InitWith(input, Free, {"n_analyze", "n_embed", "cum_before"})

ArgsSelect ==
    ArgsAll({1})
       \cup ArgsOver({<<1976>>, <<1977>>, <<1999>>}, {1})
       \cup ArgsRange({<<1976, 1977>>, <<1977, 1976>>, <<1976, 1999>>, <<1976>>},
                      {1})
       \cup ArgsFrom({1977, 1999}, {1})
       \cup ArgsDefault({1})

NextSelect ==
    \/ Step(ArgsSelect, {"none", "by_id", "wrong_id"}, {"v1"}, {"none", "ok"},
            Running)
    \/ LoadFails
    \/ InputChanges({"ok", "absent", "invalid"})

SpecSelect == InitSelect /\ [][NextSelect]_vars

\* C11 as stated: when the selection matches no group of the input, the run
\* makes no service call and ends with a non-zero status.
C11_UnsatisfiableSelectionFatal ==
    (pc \in {"done", "failed"} /\ years_to_process = <<>>) =>
       /\ \A y \in years : hist.n_analyze[y] = 0 /\ hist.n_embed[y] = 0
       /\ exit_status # 0

\* C12: when a run starts while the input record file is absent or is not
\* valid JSON, the process ends at once in load_entries with status 1; no
\* service call has been made and no partial-batch, processed or cumulative
\* file has been written or changed.
C12_LoadFailureFatal ==
    [][(pc \in Stopped /\ entries_file # "ok" /\ entries_file' = entries_file)
          => /\ pc' = "load_failed"
             /\ exit_status' = 1
             /\ UNCHANGED <<batch_files, processed_files, cumulative_file>>
             /\ \A y \in years :
                   hist'.n_analyze[y] = 0 /\ hist'.n_embed[y] = 0]_vars

\* C12 witness: a run has ended in load_entries while the files of earlier
\* runs are in place
C12_Witness ==
    /\ pc = "load_failed" /\ exit_status = 1
    /\ entries_file \in {"absent", "invalid"}
    /\ cumulative_file.st = "ok" /\ cumulative_file.entries # <<>>
    /\ \E y \in years : processed_files[y].st = "ok"

\* C13 as stated: over any sequence of runs with the same input (resume on
\* or off in each run), every id present in the cumulative file before a run
\* is still present in the cumulative file after that run has written it.
C13_CumulativeIsUnionAcrossRuns ==
    (pc \in Running \cup {"done"} /\ cumulative_file.st = "ok") =>
       hist.cum_before \subseteq Ids(cumulative_file.entries)

\* C14: in every reachable state of any sequence of runs over the same
\* input, all files having been written by the pipeline itself, every id of
\* the cumulative file, of the cumulative accumulator, of a processed file
\* and of a partial-batch file is the id of an input record.
C14_CumulativeIdsFromInput ==
    /\ Ids(cumulative_file.entries) \subseteq Ids(all_entries)
    /\ Ids(all_processed_entries) \subseteq Ids(all_entries)
    /\ \A y \in years :
          /\ Ids(processed_files[y].entries) \subseteq Ids(all_entries)
          /\ \A k \in DOMAIN batch_files[y] :
                Ids(batch_files[y][k].entries) \subseteq Ids(all_entries)

\* C14 witness: with records in the cumulative file, a record has been
\* enriched from an annotation that carries a foreign id
C14_Witness ==
    /\ pc = "batch_write"
    /\ analysis_results.val # <<>>
    /\ \A k \in DOMAIN analysis_results.val :
          PyStr(analysis_results.val[k].id) \notin Ids(all_entries)
    /\ batch_processed # <<>>
    /\ cumulative_file.st = "ok" /\ cumulative_file.entries # <<>>

-----------------------------------------------------------------------------
(* SpecRetry: one invocation of analyze_entries_batch or of
   get_embeddings_batch at a time, request by request, for every sequence of
   outcomes of the requests *)

\* max_retries=5 of both wrappers
max_retries == 5

\* what one request can come to.  analyze_entries_batch: the call raises;
\* the body is not JSON; the body is JSON but neither an object nor an
\* array; an object without any array; an array or an object with one.
\* get_embeddings_batch: the call raises; the vectors arrive.
RequestOutcomes(fn) ==
    IF fn = "analyze"
    THEN {"error", "unparsable", "not_object", "no_list", "list"}
    ELSE {"error", "ok"}

\* a wrapper whose handlers let the AttributeError of result.items() through
AttemptUncaught(fn, outcome) ==
    CASE outcome \in {"list", "ok"}         -> "return_list"
      [] outcome = "no_list"                 -> "return_empty"
      [] outcome \in {"error", "unparsable"} -> "retry"
      [] OTHER                               -> "raise"

\* a wrapper that takes an object without an array for one more failure
AttemptRetriesEmpty(fn, outcome) ==
    CASE outcome \in {"list", "ok"} -> "return_list"
      [] OTHER                       -> "retry"

\* body of "for retry in range(max_retries)": the try statement with its
\* handlers (json.JSONDecodeError inside, Exception outside)
Attempt(fn, outcome) ==
    CASE outcome \in {"list", "ok"} -> "return_list"
      [] outcome = "no_list"         -> "return_empty"
      [] OTHER                       -> "retry"

\* "if retry < max_retries - 1: ... continue", else "return None"
MayRetry(retry) == retry < max_retries - 1

\* everything but the invocation under way
pipeline ==
    <<entries_file, all_entries, entries_by_year, batch_files,
      processed_files, cumulative_file, pc, resume, batch_size,
      years_to_process, yi, all_processed_entries, processed_entries,
      start_idx, i, analysis_results, batch_embeddings, batch_processed,
      exit_status, service, hist, observed>>

\* the place of the batch loop a wrapper is invoked from
CallSite ==
    IF pc \in {"batch", "embed"}
    THEN [pc |-> pc, num |-> batch_num]
    ELSE NoCall.site

\* a wrapper is invoked; call.outcomes collects what its requests come to,
\* call.sleeps the arguments of its time.sleep calls
BeginCall(fn) ==
    /\ call.st # "running"
    /\ call' = [NoCall EXCEPT !.fn = fn, !.st = "running", !.site = CallSite]
    /\ UNCHANGED pipeline

\* the 5 of "delay = 2 ** retry * 5"
BackoffBase == 5

\* a delay that grows by BackoffBase with each retry
DelayLinear(retry) == (retry + 1) * BackoffBase

\* delay = 2 ** retry * 5
Delay(retry) == (2 ^ retry) * BackoffBase

\* one pass of the retry loop, its request coming to `outcome` (the reply
\* `body`, normalised to `value`, where the pass looks at them), or the end
\* of the loop ("return None" after it)
Respond(outcome, body, value) ==
    /\ call.st = "running"
    /\ outcome \in RequestOutcomes(call.fn)
    /\ IF ~(call.retry < max_retries)
       THEN call' = [call EXCEPT !.st = "returned", !.ret = "None"]
       ELSE LET does == Attempt(call.fn, outcome)
                sent == [call EXCEPT !.requests = @ + 1,
                                     !.outcomes = Append(@, outcome),
                                     !.body = body]
            IN  CASE does = "return_list" ->
                       call' = [sent EXCEPT !.st = "returned", !.ret = "list",
                                            !.value = value]
                  [] does = "return_empty" ->
                       call' = [sent EXCEPT !.st = "returned", !.ret = "empty"]
                  [] does = "raise" ->
                       call' = [sent EXCEPT !.st = "raised"]
                  [] does = "retry" ->
                       IF MayRetry(call.retry)
                       THEN call' = [sent EXCEPT
                                        !.retry = @ + 1,
                                        !.sleeps = Append(@, Delay(call.retry))]
                       ELSE call' = [sent EXCEPT !.st = "returned",
                                                 !.ret = "None"]
    /\ UNCHANGED pipeline

\* the same, whatever the reply that comes to `outcome`
Request(outcome) == Respond(outcome, NoCall.body, NoCall.value)

InitRetry == InitWith(InputTwo, Free, {})

NextRetry ==
    \/ \E fn \in {"analyze", "embed"} : BeginCall(fn)
    \/ \E outcome \in RequestOutcomes("analyze") \cup RequestOutcomes("embed") :
          Request(outcome)

SpecRetry == InitRetry /\ [][NextRetry]_vars

\* the requests that fail: transport errors and bodies that do not parse
\* to an object or an array
Failures == {"error", "unparsable", "not_object"}

\* the first of the requests that does not fail, 0 without one
FirstAnswer(outcomes) ==
    LET good == {k \in DOMAIN outcomes : outcomes[k] \notin Failures}
    IN  IF good = {} THEN 0 ELSE CHOOSE k \in good : \A j \in good : k <= j

\* C15: for every sequence of transport errors and unparsable bodies, one
\* invocation of analyze_entries_batch or of get_embeddings_batch issues at
\* most max_retries requests, returns at the first request that does not
\* fail, returns None after max_retries failures in a row, and never raises
\* an exception to its caller.
C15_BoundedRetryEndingInNull ==
    /\ call.st # "raised"
    /\ call.requests <= max_retries
    /\ call.requests = Len(call.outcomes)
    /\ call.st = "returned" =>
          LET first == FirstAnswer(call.outcomes)
          IN  IF first = 0
              THEN call.ret = "None" /\ call.requests = max_retries
              ELSE call.ret \in {"list", "empty"} /\ call.requests = first

\* C15 witness: analyze_entries_batch has returned None after a transport
\* error, an unparsable body and three more failures
C15_Witness ==
    /\ call.fn = "analyze" /\ call.st = "returned" /\ call.ret = "None"
    /\ call.requests = max_retries
    /\ call.outcomes[1] = "error" /\ call.outcomes[2] = "unparsable"

-----------------------------------------------------------------------------
(* SpecSlices: every input of up to MaxRecords records over the years 1976
   and 1977; fresh runs (no resume) over all years with any batch size from
   1 to MaxBatchSize, each run to its end; the annotation service answers
   or fails *)

\* largest number of input records
MaxRecords == 3

\* --all without --resume and a batch size of sizes
ArgsFresh(sizes) == {args \in ArgsAll(sizes) : ~args.resume}

\* the records "1" .. "n" in input order, each of one of the two years
InputsUpTo(n) ==
    UNION {{[k \in 1..m |-> Record(Digits[k + 1], ys[k])] :
               ys \in [1..m -> {1976, 1977}]} : m \in 0..n}

InitSlices ==
    \E input \in InputsUpTo(MaxRecords) : InitWith(input, Free, {"batches"})

NextSlices ==
    \/ \E args \in ArgsFresh(1..MaxBatchSize) : StartRun(args)
    \/ AllYearsDone
    \/ BeginYear
    \/ \E kind \in {"none", "by_id"} : AnalyzeBatch(kind, "v1")
    \/ EmbedBatch("ok")
    \/ WriteBatch
    \/ FinishYear
    \/ WriteProcessed
    \/ OpenCumulative
    \/ WriteCumulative

SpecSlices == InitSlices /\ [][NextSlices]_vars

RECURSIVE Flatten(_)
\* the concatenation of the entries of a sequence of batches
Flatten(batches) ==
    IF batches = <<>> THEN <<>>
    ELSE Head(batches).entries \o Flatten(Tail(batches))

RECURSIVE ConcatYears(_, _)
ConcatYears(entries, ys) ==
    IF ys = <<>> THEN <<>>
    ELSE SelectSeq(entries, LAMBDA e : YearOf(e) = Head(ys))
            \o ConcatYears(entries, Tail(ys))

\* the records sorted by year, records of one year in input order
StableSortByYear(entries) ==
    ConcatYears(entries, SortedFrom({YearOf(entries[k]) : k \in DOMAIN entries}))

\* batch k of the run is the last one of its group
LastOfGroup(batches, k) ==
    k = Len(batches) \/ batches[k + 1].year # batches[k].year

\* C16: for every input record sequence, the batches a fresh run over all
\* years (batch size N >= 1) slices from the groups of
\* group_entries_by_year, taken in sorted year order and concatenated, are
\* exactly the input stably sorted by year - every record once, records of
\* a year in input order - and every batch except possibly the last of a
\* group has exactly N records.
C16_PartitionCompleteness ==
    (pc = "done" /\ ~resume /\ exit_status = 0) =>
       /\ Flatten(hist.batches) = StableSortByYear(all_entries)
       /\ \A k \in DOMAIN hist.batches :
             /\ Len(hist.batches[k].entries) \in 1..batch_size
             /\ ~LastOfGroup(hist.batches, k) =>
                   Len(hist.batches[k].entries) = batch_size

\* C16 witness: a fresh run with batch size 2 has ended on an input whose
\* years are interleaved, with a group that made a full and a short batch
C16_Witness ==
    /\ pc = "done" /\ ~resume /\ batch_size = 2
    /\ Len(all_entries) = 3
    /\ YearOf(all_entries[1]) = 1977 /\ YearOf(all_entries[2]) = 1976
    /\ YearOf(all_entries[3]) = 1977
    /\ Len(hist.batches) = 2
    /\ IdList(Flatten(hist.batches)) = <<"2", "1", "3">>

-----------------------------------------------------------------------------
(* Enriched records *)

DerivedFields == {"emotions", "topics", "entities", "embedding"}

\* every entry of es carries the four derived fields
FullyEnriched(es) == \A k \in DOMAIN es : DerivedFields \subseteq DOMAIN es[k]

\* the annotation matched to some record of the batch lacks a derived
\* field, the embeddings being one per record
AnnotationLacksField ==
    /\ pc \in {"batch_write", "failed"}
    /\ ~Falsy(analysis_results)
    /\ \A k \in DOMAIN analysis_results.val :
          "id" \in DOMAIN analysis_results.val[k]
    /\ \E k \in DOMAIN analysis_results.val :
          ~({"emotions", "topics", "entities"}
                \subseteq DOMAIN analysis_results.val[k])
    /\ Len(batch_embeddings.val) = Len(current_batch)

\* C17 as stated: every entry of the group accumulator, of every
\* partial-batch file, of every processed file and of the cumulative file
\* carries all four derived fields, and a record whose annotation lacks one
\* of them is dropped from the batch output (the batch being merged and
\* saved without it) rather than stored with some of them.
C17_NoPartiallyEnrichedRecord ==
    /\ FullyEnriched(processed_entries)
    /\ FullyEnriched(all_processed_entries)
    /\ FullyEnriched(cumulative_file.entries)
    /\ \A y \in years :
          /\ FullyEnriched(processed_files[y].entries)
          /\ \A k \in DOMAIN batch_files[y] :
                FullyEnriched(batch_files[y][k].entries)
    /\ AnnotationLacksField =>
          /\ pc = "batch_write"
          /\ FullyEnriched(batch_processed)

\* C18: after any sequence of batches, skips and merges, every record of
\* the input collection and of entries_by_year has exactly the fields and
\* values it had when it was loaded; the derived fields go to the copy that
\* is appended to the accumulator.
C18_SourceRecordsNotMutated ==
    /\ all_entries = InputTwo
    /\ entries_by_year = group_entries_by_year(InputTwo)

\* C18 witness: both records of the input have been enriched and the
\* batch file that holds them is being saved
C18_Witness ==
    /\ pc = "batch_write" /\ batch_processed # <<>>
    /\ Ids(processed_entries) = Ids(InputTwo)
    /\ FullyEnriched(processed_entries)
    /\ all_entries = InputTwo

\* the entries of new whose id is not in all and not earlier in new
RECURSIVE NewIdsFrom(_, _, _)
NewIdsFrom(all, new, k) ==
    IF k > Len(new) THEN <<>>
    ELSE IF new[k].id \in Ids(all) \cup {new[j].id : j \in 1..(k - 1)}
         THEN NewIdsFrom(all, new, k + 1)
         ELSE <<new[k]>> \o NewIdsFrom(all, new, k + 1)

\* C19: when process_entries merges a group's result into the cumulative
\* accumulator, every entry already in the accumulator stays where it is
\* with the contents it had, and the entries of the group with new ids are
\* appended after them in group order.
C19_CumulativeMergeNeverOverwrites ==
    [][(pc \in {"year", "proc_write"} /\ pc' = "cum_open")
          => all_processed_entries' =
                all_processed_entries
                   \o NewIdsFrom(all_processed_entries, processed_entries', 1)]_vars

\* C19 witness: the accumulator holds, after a merge, an entry whose id the
\* merged group also has, with other contents than the group's entry
C19_Witness ==
    /\ pc = "cum_open"
    /\ \E a \in DOMAIN all_processed_entries, p \in DOMAIN processed_entries :
          /\ all_processed_entries[a].id = processed_entries[p].id
          /\ all_processed_entries[a] # processed_entries[p]

-----------------------------------------------------------------------------
(* SpecResumePoint: one year of three records; in each run any resume flag
   and any batch size from 1 to MaxBatchSize; the annotation service answers
   or fails; a run can be killed between two batches and between the
   opening and the end of the write of a partial-batch file *)

InitResumePoint == InitWith(InputThree, Free, {"batches"})

NextResumePoint ==
    Step(ArgsOver({<<1976>>}, 1..MaxBatchSize), {"none", "by_id"}, {"v1"},
         {"ok"}, {"batch", "batch_write"})

SpecResumePoint == InitResumePoint /\ [][NextResumePoint]_vars

\* the batches of the current year this run has handed to
\* analyze_entries_batch, in order
BatchesOfYear == SelectSeq(hist.batches, LAMBDA b : b.year = year)

\* the highest batch number among the partial-batch files of group y that
\* exist, 0 when there is none
HighestPartial(y) ==
    IF \A k \in DOMAIN batch_files[y] : batch_files[y][k].st = "absent"
    THEN 0
    ELSE CHOOSE k \in DOMAIN batch_files[y] :
            /\ batch_files[y][k].st # "absent"
            /\ \A j \in DOMAIN batch_files[y] :
                  j > k => batch_files[y][j].st = "absent"

\* C20: with resume enabled and no processed file for the group, if k is
\* the highest batch number among the group's partial-batch files and that
\* file loads, the batch loop starts with the accumulator equal to that
\* file's entries and at the records from position k * N on, the first
\* batch it attempts is batch k + 1, and no batch from 1 to k gets a service
\* call in this run; without any partial-batch file the accumulator starts
\* empty and the first batch attempted is batch 1.
C20_ResumePoint ==
    /\ (resume /\ pc = "batch" /\ i = 0) =>
          LET k == HighestPartial(year)
          IN  /\ BatchesOfYear = <<>>
              /\ (k > 0 /\ batch_files[year][k].st = "ok") =>
                    /\ processed_entries = batch_files[year][k].entries
                    /\ start_idx = k * batch_size
                    /\ remaining_entries =
                          PySliceFrom(entries_by_year[year], k * batch_size)
                    /\ batch_num = k + 1
              /\ k = 0 =>
                    /\ processed_entries = <<>>
                    /\ start_idx = 0
                    /\ batch_num = 1
    /\ (resume /\ pc \in {"batch", "embed", "batch_write", "proc_write"}) =>
          /\ \A b \in DOMAIN BatchesOfYear :
                BatchesOfYear[b].num > start_idx \div batch_size
          /\ BatchesOfYear # <<>> =>
                /\ BatchesOfYear[1].num = (start_idx \div batch_size) + 1
                /\ BatchesOfYear[1].entries =
                      PySlice(entries_by_year[year], start_idx,
                              start_idx + batch_size)

\* C20 witness: a run resumed from the partial file of batch 2 has handed
\* batch 3, the third record, to analyze_entries_batch as its first batch
C20_Witness ==
    /\ resume /\ pc = "embed" /\ batch_size = 1
    /\ start_idx = 2
    /\ Len(processed_entries) = 2
    /\ Len(BatchesOfYear) = 1
    /\ BatchesOfYear[1].num = 3
    /\ IdList(BatchesOfYear[1].entries) = <<"3">>

-----------------------------------------------------------------------------
(* SpecCrash: one year of three records; in each run any resume flag and
   any batch size from 1 to MaxBatchSize; the annotation service answers or
   fails; a run can be killed while a batch is in flight: before its
   annotate call and between its annotate and its embed call *)

InitCrash == InitWith(InputThree, Free, {"batches", "inflight"})

NextCrash ==
    Step(ArgsOver({<<1976>>}, 1..MaxBatchSize), {"none", "by_id"}, {"v1"},
         {"ok"}, {"batch", "embed"})

SpecCrash == InitCrash /\ [][NextCrash]_vars

\* the run under way is the first run after a run that was killed while a
\* batch of the current year was in flight, and it has resume enabled and
\* the batch size of the killed run
ResumesKilledBatch ==
    /\ pc \in Running /\ yi <= Len(years_to_process)
    /\ resume /\ hist.inflight.set /\ hist.inflight.year = year

\* C21 as stated: if the process is killed while batch k + 1 is in flight
\* (the partial file of batch k fully written, that of batch k + 1 not
\* opened), the next run with resume enabled (and the same batch size)
\* starts from the content of partial file k and re-issues the service
\* calls of batch k + 1 before it finishes the group; the in-flight batch
\* of the killed run has written nothing to any file.
C21_CrashRecoveryPoint ==
    /\ [](ResumesKilledBatch =>
            /\ (pc = "batch" /\ i = 0) =>
                  /\ processed_entries = hist.inflight.prev
                  /\ batch_num = hist.inflight.num
            /\ (pc \in {"embed", "batch_write", "proc_write", "cum_open"}) =>
                  /\ BatchesOfYear # <<>>
                  /\ BatchesOfYear[1].num = hist.inflight.num
                  /\ BatchesOfYear[1].entries = hist.inflight.entries)
    /\ [][(pc \in {"batch", "embed"} /\ pc' \in {"embed", "idle"})
             => UNCHANGED <<batch_files, processed_files, cumulative_file>>]_vars

-----------------------------------------------------------------------------
(* SpecLoop: one year of three records; in each run any resume flag and any
   batch size from 1 to MaxBatchSize; both services answer, return None or
   return an empty list; a run is killed only between batches.  The history
   keeps the calls and the partial-file writes of the current run. *)

InitLoop ==
    InitWith(InputThree, Free, {"n_analyze", "n_embed", "events"})

NextLoop ==
    Step(ArgsOver({<<1976>>}, 1..MaxBatchSize),
         {"none", "empty", "by_id"}, {"v1"}, {"none", "empty", "ok"},
         {"batch"})

SpecLoop == InitLoop /\ [][NextLoop]_vars

\* the positions of the run's history at which a call came back with None
\* or with an empty list
SkipEvents ==
    {k \in DOMAIN hist.events :
        hist.events[k].op \in {"analyze", "embed"} /\ ~hist.events[k].ok}

\* C22: when analyze_entries_batch or get_embeddings_batch returns None or
\* an empty list for a batch, that step leaves the accumulator and every
\* file unchanged and goes on to the next batch; a failed annotation is not
\* followed by an embeddings call, and the run writes no partial file with
\* the number of a skipped batch.
C22_SkipLeavesStateUnchanged ==
    /\ [][(/\ Len(hist'.events) = Len(hist.events) + 1
            /\ Len(hist'.events) \in
                  {k \in DOMAIN hist'.events :
                      /\ hist'.events[k].op \in {"analyze", "embed"}
                      /\ ~hist'.events[k].ok})
             => /\ processed_entries' = processed_entries
                /\ UNCHANGED <<batch_files, processed_files, cumulative_file>>
                /\ hist'.events[Len(hist'.events)].op = "analyze"
                      => hist'.n_embed = hist.n_embed
                /\ pc' = "batch"
                /\ i' = i + batch_size]_vars
    /\ [](\A k \in SkipEvents : \A j \in DOMAIN hist.events :
             (j > k /\ hist.events[j].year = hist.events[k].year)
                => hist.events[j].num > hist.events[k].num)

\* C22 witness: in one run the annotation of batch 1 failed, the embeddings
\* of batch 2 failed and the partial file of batch 3 was written
C22_Witness ==
    /\ Len(hist.events) = 6
    /\ hist.events[1].op = "analyze" /\ ~hist.events[1].ok
    /\ hist.events[3].op = "embed" /\ ~hist.events[3].ok
    /\ hist.events[6].op = "write" /\ hist.events[6].num = 3
    /\ processed_entries # <<>>

-----------------------------------------------------------------------------
(* SpecSkipped: one year of five records; in each run any resume flag and
   any batch size from 1 to MaxBatchSize; the annotation service answers or
   returns None; a run is killed only between batches; MaxRuns runs.  The
   history keeps,
   from run to run and until a run starts without resume, the records of
   the batches that were skipped before a later batch was saved. *)

\* the number of runs of one behaviour
MaxRuns == 3

InitSkipped ==
    InitWith(InputFive, Free, {"batches", "events", "passed", "runs"})

NextSkipped ==
    Step({args \in ArgsOver({<<1976>>}, 1..MaxBatchSize) : hist.runs < MaxRuns},
         {"none", "by_id"}, {"v1"}, {"ok"}, {"batch"})

SpecSkipped == InitSkipped /\ [][NextSkipped]_vars

\* the step is an invocation of analyze_entries_batch
AnalyzeStep == Len(hist'.batches) = Len(hist.batches) + 1

\* the batch that step hands to analyze_entries_batch
AnalyzedBatch == hist'.batches[Len(hist'.batches)]

\* within one run no batch of a group is handed to analyze_entries_batch
\* twice, and no record is in two of the batches
OneInvocationPerBatch ==
    \A j, k \in DOMAIN hist.batches :
       (j < k /\ hist.batches[j].year = hist.batches[k].year)
          => /\ hist.batches[j].num < hist.batches[k].num
             /\ Ids(hist.batches[j].entries) \cap Ids(hist.batches[k].entries)
                   = {}

-----------------------------------------------------------------------------
(* C24, under SpecLoop *)

\* event k of the run's history closes a batch: its partial file was
\* written, or one of its two calls came back with nothing
ClosesBatch(k) ==
    \/ hist.events[k].op = "write"
    \/ hist.events[k].op \in {"analyze", "embed"} /\ ~hist.events[k].ok

\* C24: in every run the steps of a batch come in the order annotate call,
\* embed call, merge, partial-file write; the annotate call of a batch
\* starts only when the previous batch of the run was written or skipped;
\* get_embeddings_batch is invoked for a batch only right after
\* analyze_entries_batch returned a non-empty result for that batch, and
\* while it runs or the file is written no other call is under way.
C24_SequentialBatchProtocol ==
    /\ \A k \in DOMAIN hist.events :
          LET e == hist.events[k]
          IN  CASE e.op = "analyze" ->
                     k > 1 => /\ ClosesBatch(k - 1)
                              /\ hist.events[k - 1].year = e.year
                                    => hist.events[k - 1].num < e.num
                [] e.op = "embed" ->
                     /\ k > 1
                     /\ hist.events[k - 1].op = "analyze"
                     /\ hist.events[k - 1].ok
                     /\ hist.events[k - 1].num = e.num
                     /\ hist.events[k - 1].year = e.year
                [] e.op = "write" ->
                     /\ k > 1
                     /\ hist.events[k - 1].op = "embed"
                     /\ hist.events[k - 1].ok
                     /\ hist.events[k - 1].num = e.num
                     /\ hist.events[k - 1].year = e.year
    /\ pc = "embed" =>
          /\ NonEmpty(analysis_results)
          /\ hist.events # <<>>
          /\ hist.events[Len(hist.events)] = Event("analyze", TRUE, <<>>)
    /\ pc = "batch_write" =>
          /\ NonEmpty(analysis_results) /\ NonEmpty(batch_embeddings)
          /\ hist.events[Len(hist.events)] = Event("embed", TRUE, <<>>)
          /\ MergeBatch(current_batch, analysis_results.val,
                        batch_embeddings.val).out = batch_processed
    /\ pc = "batch" =>
          /\ analysis_results = None /\ batch_embeddings = None
          /\ hist.events # <<>> => ClosesBatch(Len(hist.events))

\* C24 witness: a run wrote batch 1, skipped batch 2 at the annotate call
\* and wrote batch 3
C24_Witness ==
    /\ pc = "batch" /\ Len(hist.events) = 7
    /\ hist.events[3].op = "write" /\ hist.events[3].num = 1
    /\ hist.events[4].op = "analyze" /\ ~hist.events[4].ok
    /\ hist.events[7].op = "write" /\ hist.events[7].num = 3

-----------------------------------------------------------------------------
(* C25, under SpecLoop *)

\* the positions of the run's history at which a partial file was written
WriteEvents == {k \in DOMAIN hist.events : hist.events[k].op = "write"}

IsPrefix(s, t) == Len(s) <= Len(t) /\ SubSeq(t, 1, Len(s)) = s

\* C25: no step removes a partial-batch file; the step that finishes the
\* partial file of batch k leaves in it the whole accumulator; within one
\* run the numbers of the partial files written increase strictly and each
\* file holds, as a prefix, the entries of the file written before it.
C25_PartialFilesAppendOnly ==
    /\ [][\A y \in DOMAIN batch_files : \A n \in DOMAIN batch_files[y] :
             Exists(batch_files[y][n]) => Exists(batch_files'[y][n])]_vars
    /\ [][(pc = "batch_write" /\ pc' = "batch") =>
             /\ Len(hist'.events) = Len(hist.events) + 1
             /\ LET e == hist'.events[Len(hist'.events)]
                IN  /\ e.op = "write"
                    /\ batch_files'[e.year][e.num] = Saved(processed_entries)
                    /\ e.entries = processed_entries
                    /\ processed_entries' = processed_entries]_vars
    /\ [](\A j, k \in WriteEvents :
             (j < k /\ hist.events[j].year = hist.events[k].year)
                => /\ hist.events[j].num < hist.events[k].num
                   /\ IsPrefix(hist.events[j].entries, hist.events[k].entries))

\* C25 witness: a run with resume enabled that started from a partial file
\* has written two more, the second longer than the first
C25_Witness ==
    /\ resume /\ start_idx > 0 /\ Cardinality(WriteEvents) = 2
    /\ \E j, k \in WriteEvents :
          /\ j < k
          /\ hist.events[j].entries # <<>>
          /\ Len(hist.events[j].entries) < Len(hist.events[k].entries)

-----------------------------------------------------------------------------
(* SpecMerge: one run without resume over one year of two records, in one
   batch; analyze_entries_batch returns any array of 1 to MaxItems items,
   each item with the id of one of the records (as a string or as a number),
   with another id, without an id or without its emotions; the embeddings
   arrive in order, reversed, one short, one too many, or not at all *)

MaxItems == 3

ItemShapes == {"id1", "id2", "int1", "other", "no_id", "no_emotions"}

\* the item of a shape at position k (from 1) of the array; what it derives
\* is marked with its position
MarkedItem(shape, k) ==
    LET d == [of |-> "item", ver |-> Digits[k + 1]]
        full == [emotions |-> d, topics |-> d, entities |-> d]
    IN  CASE shape = "id1"   -> [id |-> JStr("1")] @@ full
          [] shape = "id2"   -> [id |-> JStr("2")] @@ full
          [] shape = "int1"  -> [id |-> JInt(1)] @@ full
          [] shape = "other" -> [id |-> JStr("x")] @@ full
          [] shape = "no_id" -> full
          [] shape = "no_emotions" ->
                [id |-> JStr("1"), topics |-> d, entities |-> d]

Annotations ==
    UNION {{[k \in 1..n |-> MarkedItem(shapes[k], k)] :
               shapes \in [1..n -> ItemShapes]} : n \in 1..MaxItems}

InitMerge == InitWith(InputTwo, Free, {})

NextMerge ==
    \/ /\ pc = "idle"
       /\ \E args \in ArgsFresh({Len(InputTwo)}) : StartRun(args)
    \/ AllYearsDone
    \/ BeginYear
    \/ \E results \in Annotations : AnalyzeReturns(Ret(results), FALSE)
    \/ \E kind \in {"none", "ok", "reversed", "short", "long"} :
          EmbedBatch(kind)
    \/ WriteBatch
    \/ FinishYear
    \/ WriteProcessed
    \/ OpenCumulative
    \/ WriteCumulative

SpecMerge == InitMerge /\ [][NextMerge]_vars

\* the merge of the current batch has run: it finished, or it raised
Merged == pc \in {"batch_write", "failed"}

\* some item of the annotations carries the id of the record at idx (from 0)
IdMatches(idx) ==
    {k \in DOMAIN analysis_results.val :
        /\ "id" \in DOMAIN analysis_results.val[k]
        /\ PyStr(analysis_results.val[k].id) = current_batch[idx + 1].id}

\* C26 as stated: for non-empty annotations A and embeddings E the merge
\* raises no error, and the record at position idx is in the batch output
\* if and only if (some item of A has the id of the record, or
\* idx < len(A)) and idx < len(E).
C26_MergeInclusionRule ==
    Merged =>
       /\ pc # "failed"
       /\ \A idx \in 0..(Len(current_batch) - 1) :
             current_batch[idx + 1].id \in Ids(batch_processed)
                <=> /\ IdMatches(idx) # {} \/ idx < Len(analysis_results.val)
                    /\ idx < Len(batch_embeddings.val)

\* the rule of C26 for the merges that finish
InclusionRuleWhenNoError ==
    pc = "batch_write" =>
       \A idx \in 0..(Len(current_batch) - 1) :
          current_batch[idx + 1].id \in Ids(batch_processed)
             <=> /\ IdMatches(idx) # {} \/ idx < Len(analysis_results.val)
                 /\ idx < Len(batch_embeddings.val)

\* the position (from 0) in the current batch of the record with this id
PositionOf(id) ==
    (CHOOSE k \in DOMAIN current_batch : current_batch[k].id = id) - 1

\* the item the claim names for the record at idx: the first with its id,
\* annotations[idx] without one
ItemFor(idx) ==
    IF IdMatches(idx) # {}
    THEN analysis_results.val[CHOOSE k \in IdMatches(idx) :
                                 \A j \in IdMatches(idx) : k <= j]
    ELSE analysis_results.val[idx + 1]

-----------------------------------------------------------------------------
(* C30, under SpecRetry *)

\* the attempts of the invocation that failed
FailedAttempts == {k \in DOMAIN call.outcomes : call.outcomes[k] \in Failures}

\* C30: in both wrappers the failed attempt number a (from 0) with
\* a < max_retries - 1 is followed by a sleep of exactly 5 * 2^a seconds
\* (5, 10, 20, 40 for max_retries = 5); the last failed attempt is followed
\* by "return None" without a sleep; nothing else sleeps; the delays of one
\* invocation increase strictly.
C30_BackoffSchedule ==
    /\ Len(call.sleeps) = Min(Cardinality(FailedAttempts), max_retries - 1)
    /\ call.sleeps = SubSeq(<<5, 10, 20, 40>>, 1, Len(call.sleeps))
    /\ \A a \in DOMAIN call.sleeps :
          /\ call.sleeps[a] = 5 * (2 ^ (a - 1))
          /\ a > 1 => call.sleeps[a - 1] < call.sleeps[a]
    /\ (call.st = "returned" /\ call.ret = "None") =>
          /\ Cardinality(FailedAttempts) = max_retries
          /\ Len(call.sleeps) = max_retries - 1

\* C30 witness: get_embeddings_batch has returned None after five failed
\* requests and the sleeps 5, 10, 20, 40
C30_Witness ==
    /\ call.fn = "embed" /\ call.st = "returned" /\ call.ret = "None"
    /\ call.requests = max_retries
    /\ call.sleeps = <<5, 10, 20, 40>>

-----------------------------------------------------------------------------
(* The reply of the annotation service and its normalisation *)

\* a top-level value of a parsed object, by type; v names the value
JValue(t, v) == [t |-> t, v |-> v]

\* field names: the three the code probes and two it does not know
FieldNames == {"results", "data", "entries", "items", "more"}

MaxFields == 3

\* a field holds an array or a string, named after the field
FieldsOf(names, types) ==
    [k \in DOMAIN names |->
        [key |-> names[k], val |-> JValue(types[k], names[k])]]

\* the parsed objects of up to m fields with distinct names, in every order
ObjectsUpTo(m) ==
    UNION {{[t |-> "dict", fields |-> FieldsOf(names, types), v |-> ""] :
               names \in {ns \in [1..n -> FieldNames] :
                             \A j, k \in 1..n : j # k => ns[j] # ns[k]},
               types \in [1..n -> {"list", "str"}]} : n \in 0..m}

\* a reply: the request raises; the content is not JSON; it parses to a
\* string or number, to an array, or to an object
RepliesUpTo(m) ==
    {[t |-> t, fields |-> <<>>, v |-> "reply"] :
        t \in {"error", "unparsable", "scalar", "list"}} \cup ObjectsUpTo(m)

HasKey(result, key) ==
    \E k \in DOMAIN result.fields : result.fields[k].key = key

\* result[key]
Get(result, key) ==
    result.fields[CHOOSE k \in DOMAIN result.fields :
                     result.fields[k].key = key].val

RECURSIVE FirstList(_, _)
\* "for key, value in result.items(): if isinstance(value, list): return value"
FirstList(result, k) ==
    IF k > Len(result.fields) THEN [does |-> "return_empty", val |-> NoCall.value]
    ELSE IF result.fields[k].val.t = "list"
         THEN [does |-> "return", val |-> result.fields[k].val]
         ELSE FirstList(result, k + 1)

\* a probe that looks for "data" before "results"
NormalizeDataFirst(result) ==
    IF result.t = "dict" /\ HasKey(result, "data")
    THEN [does |-> "return", val |-> Get(result, "data")]
    ELSE IF result.t = "list"
    THEN [does |-> "return", val |-> JValue("list", result.v)]
    ELSE IF result.t = "dict" /\ HasKey(result, "results")
    THEN [does |-> "return", val |-> Get(result, "results")]
    ELSE IF result.t = "dict" /\ HasKey(result, "entries")
    THEN [does |-> "return", val |-> Get(result, "entries")]
    ELSE IF result.t = "dict" THEN FirstList(result, 1)
    ELSE [does |-> "raise", val |-> NoCall.value]

\* "Ensure result is a list": the if/elif chain on the parsed result; a
\* result that is neither an object nor an array has no items()
Normalize(result) ==
    IF result.t = "dict" /\ HasKey(result, "results")
    THEN [does |-> "return", val |-> Get(result, "results")]
    ELSE IF result.t = "list"
    THEN [does |-> "return", val |-> JValue("list", result.v)]
    ELSE IF result.t = "dict" /\ HasKey(result, "data")
    THEN [does |-> "return", val |-> Get(result, "data")]
    ELSE IF result.t = "dict" /\ HasKey(result, "entries")
    THEN [does |-> "return", val |-> Get(result, "entries")]
    ELSE IF result.t = "dict" THEN FirstList(result, 1)
    ELSE [does |-> "raise", val |-> NoCall.value]

\* what a pass of the retry loop of analyze_entries_batch comes to for a reply
OutcomeOf(reply) ==
    CASE reply.t = "error"      -> "error"
      [] reply.t = "unparsable" -> "unparsable"
      [] OTHER ->
           CASE Normalize(reply).does = "raise"        -> "not_object"
             [] Normalize(reply).does = "return_empty" -> "no_list"
             [] OTHER                                  -> "list"

\* one pass of the retry loop of analyze_entries_batch for a reply
RequestReply(reply) ==
    /\ call.fn = "analyze"
    /\ Respond(OutcomeOf(reply), reply,
               IF reply.t \in {"error", "unparsable"} THEN NoCall.value
               ELSE Normalize(reply).val)

-----------------------------------------------------------------------------
(* SpecReply: one invocation of analyze_entries_batch at a time, request by
   request, for every reply: an error, content that does not parse, a
   scalar, an array, or an object of up to MaxFields fields *)

InitReply == InitWith(InputTwo, Free, {})

NextReply ==
    \/ BeginCall("analyze")
    \/ \E reply \in RepliesUpTo(MaxFields) : RequestReply(reply)

SpecReply == InitReply /\ [][NextReply]_vars

-----------------------------------------------------------------------------
(* SpecCall: one run without resume over one year of two records, any batch
   size from 1 to MaxBatchSize; each call of the batch loop is an invocation
   of its wrapper, request by request: any reply of at most one field to
   analyze_entries_batch, an error or the vectors to get_embeddings_batch *)

\* the batch loop invokes a wrapper: analyze_entries_batch(current_batch) or
\* get_embeddings_batch(embedding_texts)
Invoke(fn) ==
    /\ \/ /\ fn = "analyze"
          /\ pc = "batch"
          /\ InRange(i, Len(remaining_entries), batch_size)
       \/ fn = "embed" /\ pc = "embed"
    /\ ~(call.st = "returned" /\ call.fn = fn /\ call.site = CallSite)
    /\ BeginCall(fn)

\* the value analyze_entries_batch handed back: None, [], the items of an
\* array, or the characters of a string
ReturnedAnalysis ==
    CASE call.ret = "None"  -> None
      [] call.ret = "empty" -> Ret(<<>>)
      [] OTHER ->
           IF call.value.t = "list"
           THEN AnalysisOf("by_id", current_batch, "v1")
           ELSE Ret(<<[char |-> call.value.v]>>)

\* the batch loop goes on with what analyze_entries_batch returned
AnalyzeFromCall ==
    /\ call.st = "returned" /\ call.fn = "analyze"
    /\ pc = "batch" /\ call.site = CallSite
    /\ AnalyzeReturns(ReturnedAnalysis, FALSE)

\* the batch loop goes on with what get_embeddings_batch returned
EmbedFromCall ==
    /\ call.st = "returned" /\ call.fn = "embed"
    /\ pc = "embed" /\ call.site = CallSite
    /\ EmbedReturns(IF call.ret = "None" THEN None
                    ELSE EmbeddingsOf("ok", current_batch),
                    call.ret # "None")

InitCall == InitWith(InputTwo, Free, {})

NextCall ==
    \/ /\ pc = "idle"
       /\ \E args \in ArgsFresh(1..MaxBatchSize) : StartRun(args)
    \/ AllYearsDone
    \/ BeginYear
    \/ \E fn \in {"analyze", "embed"} : Invoke(fn)
    \/ \E reply \in RepliesUpTo(1) : RequestReply(reply)
    \/ \E outcome \in RequestOutcomes("embed") :
          call.fn = "embed" /\ Request(outcome)
    \/ AnalyzeFromCall
    \/ EmbedFromCall
    \/ WriteBatch
    \/ FinishYear
    \/ WriteProcessed
    \/ OpenCumulative
    \/ WriteCumulative

SpecCall == InitCall /\ [][NextCall]_vars

\* the last request of analyze_entries_batch got a parsed object or array
ParsedReply ==
    /\ call.fn = "analyze" /\ call.requests > 0
    /\ call.body.t \in {"dict", "list"}

\* the positions of the fields of the reply with this name / holding arrays
FieldsNamed(key) ==
    {k \in DOMAIN call.body.fields : call.body.fields[k].key = key}

ListFields ==
    {k \in DOMAIN call.body.fields : call.body.fields[k].val.t = "list"}

\* the value the claim names for the reply: under results, else under
\* data, else under entries, else the first array; "none" without one
ValueByPriority ==
    LET f == call.body.fields
        under(key) == f[CHOOSE k \in FieldsNamed(key) : TRUE].val
    IN  IF FieldsNamed("results") # {} THEN under("results")
        ELSE IF FieldsNamed("data") # {} THEN under("data")
        ELSE IF FieldsNamed("entries") # {} THEN under("entries")
        ELSE IF ListFields # {}
             THEN f[CHOOSE k \in ListFields : \A j \in ListFields : k <= j].val
             ELSE NoCall.value

C29_NoArrayFailsAtOnce ==
    /\ []((ParsedReply /\ call.body.t = "dict"
              /\ FieldsNamed("results") = {} /\ FieldsNamed("data") = {}
              /\ FieldsNamed("entries") = {} /\ ListFields = {})
            => /\ call.st = "returned" /\ call.ret = "empty"
               /\ call.requests = Len(call.outcomes)
               /\ Len(call.sleeps) = call.requests - 1)
    /\ [][(/\ call.st = "returned" /\ call.fn = "analyze"
            /\ call.ret = "empty"
            /\ pc = "batch" /\ call.site = CallSite)
             => /\ call' = call
                /\ processed_entries' = processed_entries
                /\ UNCHANGED <<batch_files, processed_files, cumulative_file>>
                /\ pc' = "batch"
                /\ i' = i + batch_size]_vars

\* C29 witness: the first request of the first batch failed, the second got
\* {"items": "..."}; the batch was skipped and the loop is at batch 2
C29_Witness ==
    /\ call.st = "returned" /\ call.fn = "analyze" /\ call.ret = "empty"
    /\ call.requests = 2 /\ call.sleeps = <<BackoffBase>>
    /\ call.body.fields = FieldsOf(<<"items">>, <<"str">>)
    /\ call.site.num = 1
    /\ pc = "batch" /\ batch_num = 2 /\ processed_entries = <<>>

-----------------------------------------------------------------------------
(* SpecLive: one run of SpecCall from an empty output directory, which can
   be killed anywhere; a run that is not killed takes its next step sooner or
   later, and every request returns or fails *)

InitLive == InitWith(InputTwo, Free, {"n_analyze", "n_embed", "runs"})

\* the steps of a run under way
RunStep ==
    \/ AllYearsDone
    \/ BeginYear
    \/ \E fn \in {"analyze", "embed"} : Invoke(fn)
    \/ \E reply \in RepliesUpTo(1) : RequestReply(reply)
    \/ \E outcome \in RequestOutcomes("embed") :
          call.fn = "embed" /\ Request(outcome)
    \/ AnalyzeFromCall
    \/ EmbedFromCall
    \/ WriteBatch
    \/ FinishYear
    \/ WriteProcessed
    \/ OpenCumulative
    \/ WriteCumulative

NextLive ==
    \/ /\ pc = "idle" /\ hist.runs = 0
       /\ \E args \in ArgsFresh(1..MaxBatchSize) : StartRun(args)
    \/ RunStep
    \/ Kill(Running) /\ call.st # "running"

SpecLive == InitLive /\ [][NextLive]_vars /\ WF_vars(RunStep)

\* ceil(n / size)
CeilDiv(n, size) == (n + size - 1) \div size

\* every run that is started comes to its end
RunTerminates == (pc \in Running) ~> (pc \in Stopped)

\* the calls of a run stay within ceil(n/N) invocations of each wrapper for
\* a group of n records, each of at most max_retries requests
CallsBounded ==
    (pc \in Running /\ yi <= Len(years_to_process)) =>
       /\ hist.n_analyze[year] <= CeilDiv(Len(year_entries), batch_size)
       /\ hist.n_embed[year] <= CeilDiv(Len(year_entries), batch_size)
       /\ call.requests <= max_retries

\* C31 as stated: every run terminates; for a group of n records it makes at
\* most ceil(n/N) invocations of each wrapper, each of at most max_retries
\* requests; and a run that is not killed ends with the processed file of
\* every selected group written.
C31_EveryRunTerminates ==
    /\ RunTerminates
    /\ []CallsBounded
    /\ [](pc \in {"done", "failed"} =>
             \A k \in DOMAIN years_to_process :
                processed_files[years_to_process[k]].st = "ok")

-----------------------------------------------------------------------------
(* Batch numbers and positions, under SpecResume (every run uses the batch
   size of the first run) *)

\* the records of the group at positions lo .. hi - 1, counted from 0
AtPositions(group, lo, hi) ==
    [k \in 1..(Min(hi, Len(group)) - Min(lo, Len(group))) |->
        group[Min(lo, Len(group)) + k]]

-----------------------------------------------------------------------------
(* The cumulative file at the group boundaries, under SpecCumulative *)

\* the run has finished a group and is between two groups, at work on a
\* later group, or at its end
PastGroupBoundary ==
    /\ hist.finished.n > 0
    /\ pc \in {"year", "batch", "embed", "batch_write", "proc_write", "done"}

\* C33 (as amended): once a run has finished a group that was not skipped,
\* then between two groups, during every later group and at the end of the
\* run the cumulative file holds exactly the cumulative accumulator, and it
\* holds an entry for the id of every enriched record of every group the
\* run has finished.
C33_CumulativeAtGroupBoundary ==
    PastGroupBoundary =>
       /\ cumulative_file = Saved(all_processed_entries)
       /\ {e.id : e \in hist.finished.entries}
             \subseteq Ids(cumulative_file.entries)

\* C33 as stated: ... the cumulative file holds every enriched record of
\* every group finished so far in this run.
C33_CumulativeHoldsEveryRecord ==
    PastGroupBoundary =>
       /\ cumulative_file = Saved(all_processed_entries)
       /\ hist.finished.entries \subseteq Range(cumulative_file.entries)

\* C33 witness: a run has finished two groups, both freshly enriched, and
\* the cumulative file holds the records of both
C33_Witness ==
    /\ pc = "year" /\ yi = 3 /\ ~resume
    /\ hist.finished.n = 2
    /\ Cardinality(hist.finished.entries) = 2
    /\ hist.finished.entries = Range(cumulative_file.entries)

-----------------------------------------------------------------------------
(* Ids in the output of a group, under Spec *)

\* no partial-batch file, no processed file and no accumulator of a group
\* holds two entries with one id
NoDuplicatesInGroupOutput ==
    /\ \A y \in DOMAIN batch_files : \A k \in DOMAIN batch_files[y] :
          batch_files[y][k].st = "ok" =>
             NoDuplicateIds(batch_files[y][k].entries)
    /\ \A y \in DOMAIN processed_files :
          processed_files[y].st = "ok" =>
             NoDuplicateIds(processed_files[y].entries)
    /\ NoDuplicateIds(processed_entries)

\* C34 (as amended): over any sequence of runs on the same input that all
\* use the same positive batch size (any resume flags, any crash points), no
\* partial-batch file and no processed file of a group holds two entries
\* with the same id, and no record is enriched twice into one accumulator.
C34_NoDuplicateIdsSameSize ==
    Cardinality(hist.sizes) <= 1 => NoDuplicatesInGroupOutput

\* C34 as stated: the same with any positive batch size in each run.
C34_NoDuplicateIdsInGroupOutput == NoDuplicatesInGroupOutput

\* C34 witness: a resumed run of the batch size of the runs before it has
\* added the second record to the entries it loaded from partial file 1
C34_Witness ==
    /\ pc = "batch" /\ resume /\ start_idx = 1 /\ i = 1
    /\ Cardinality(hist.sizes) = 1
    /\ batch_files[year][1].st = "ok" /\ batch_files[year][2].st = "ok"
    /\ Len(batch_files[year][2].entries) = 2
    /\ NoDuplicateIds(batch_files[year][2].entries)

-----------------------------------------------------------------------------
(* Which item of the annotation array a record got, under SpecMerge *)

\* the position (from 1) in the annotation array of the item whose derived
\* fields the output record carries
AttachedItem(out) ==
    CHOOSE k \in DOMAIN analysis_results.val : Digits[k + 1] = out.emotions.ver

\* C35 as stated: within one batch merge no item of the annotation array is
\* attached to two different records, and an attached item that carries an
\* id carries the id of the record it is attached to.
C35_AnnotationAttachedOnce ==
    pc = "batch_write" =>
       /\ \A p, q \in DOMAIN batch_processed :
             AttachedItem(batch_processed[p]) = AttachedItem(batch_processed[q])
                => p = q
       /\ \A p \in DOMAIN batch_processed :
             LET item == analysis_results.val[AttachedItem(batch_processed[p])]
             IN  "id" \in DOMAIN item
                    => PyStr(item.id) = batch_processed[p].id

-----------------------------------------------------------------------------
(* A processed file that does not parse, under SpecCumulative *)

\* the run is about to handle a group whose processed file exists and
\* cannot be parsed, with resume enabled
UnreadableProcessedFile ==
    /\ pc = "year" /\ yi <= Len(years_to_process)
    /\ resume /\ processed_files[year].st = "torn"

\* C36: with resume enabled, a group whose processed file exists and cannot
\* be parsed is handled in one step that is not a kill: either the group is
\* skipped, or process_year_entries returns an empty result, which leaves
\* the accumulator as it is; no service call is made, and the partial-batch
\* files and the processed file stay as they are; no run with resume enabled
\* is ever in the batch loop of a group with such a file.
C36_UnreadableProcessedFileIsEmpty ==
    /\ [][(UnreadableProcessedFile /\ pc' # "idle") =>
            /\ UNCHANGED <<batch_files, processed_files>>
            /\ hist'.n_analyze = hist.n_analyze
            /\ hist'.n_embed = hist.n_embed
            /\ \/ /\ pc' = "cum_open" /\ yi' = yi
                  /\ processed_entries' = <<>>
                  /\ all_processed_entries' = all_processed_entries
               \/ /\ pc' = "year" /\ yi' = yi + 1
                  /\ Ids(year_entries) \subseteq Ids(all_processed_entries)]_vars
    /\ []((resume /\ pc \in {"batch", "embed", "batch_write"})
             => processed_files[year].st = "absent")

\* C36 witness: a run with resume enabled got an empty result for a group
\* whose processed file is cut short, though partial file 1 of the group
\* holds its record
C36_Witness ==
    /\ pc = "cum_open" /\ resume
    /\ processed_files[year].st = "torn"
    /\ processed_entries = <<>>
    /\ hist.n_analyze[year] = 0 /\ hist.n_embed[year] = 0
    /\ batch_files[year][1].st = "ok"
    /\ batch_files[year][1].entries # <<>>

-----------------------------------------------------------------------------
(* A highest partial-batch file that does not load, under Spec *)

\* the run is about to handle a group without a processed file whose
\* highest-numbered partial-batch file cannot be loaded, with resume enabled
UnreadableHighestPartial ==
    /\ pc = "year" /\ yi <= Len(years_to_process)
    /\ resume /\ processed_files[year].st = "absent"
    /\ HighestPartial(year) > 0
    /\ batch_files[year][HighestPartial(year)].st = "torn"

\* C37: with resume enabled and no processed file, when the partial-batch
\* file with the highest number cannot be loaded the group starts over: the
\* accumulator is empty and the first batch is batch 1 at position 0,
\* whatever the partial files with lower numbers hold; and every partial
\* file a run writes holds the accumulator of that run, whatever the file
\* held before.
C37_UnreadablePartialRestartsGroup ==
    /\ [][(UnreadableHighestPartial /\ pc' # "idle") =>
            /\ pc' = "batch"
            /\ processed_entries' = <<>>
            /\ start_idx' = 0 /\ i' = 0
            /\ UNCHANGED <<batch_files, processed_files, cumulative_file>>]_vars
    /\ [][(pc = "batch_write" /\ pc' = "batch") =>
            batch_files'[year][batch_num] = Saved(processed_entries)]_vars

\* C37 witness: a resumed run starts at batch 1 with an empty accumulator
\* though partial file 1 loads and holds an entry; partial file 2 is cut
\* short
C37_Witness ==
    /\ pc = "batch" /\ resume /\ start_idx = 0 /\ i = 0
    /\ processed_entries = <<>>
    /\ processed_files[year].st = "absent"
    /\ batch_files[year][2].st = "torn"
    /\ batch_files[year][1].st = "ok"
    /\ batch_files[year][1].entries # <<>>

-----------------------------------------------------------------------------
(* Runs without resume, under SpecCumulative *)

\* C38: a run without resume starts with an empty cumulative accumulator,
\* whatever the cumulative file holds, and leaves that file alone at its
\* start; it starts every selected group at batch 1, position 0, with an
\* empty accumulator, whatever processed file or partial files the group
\* has; it never skips a group and never takes a result from a processed
\* file; and it hands every batch of the group to analyze_entries_batch.
C38_NoResumeIgnoresCheckpoints ==
    /\ [][(pc = "idle" /\ pc' = "year" /\ ~resume') =>
            /\ all_processed_entries' = <<>>
            /\ UNCHANGED <<batch_files, processed_files, cumulative_file>>]_vars
    /\ [][(pc = "year" /\ yi <= Len(years_to_process) /\ ~resume
              /\ pc' # "idle") =>
            /\ pc' = "batch" /\ yi' = yi
            /\ processed_entries' = <<>>
            /\ start_idx' = 0 /\ i' = 0
            /\ UNCHANGED <<batch_files, processed_files, cumulative_file,
                           all_processed_entries>>]_vars
    /\ [][(pc = "batch" /\ ~resume /\ pc' # "idle") =>
            IF InRange(i, Len(remaining_entries), batch_size)
            THEN hist'.n_analyze[year] = hist.n_analyze[year] + 1
            ELSE pc' = "proc_write"]_vars

\* C38 witness: a run without resume is at batch 1 of a group with an empty
\* accumulator though the group has a processed file and a partial file
\* with entries, and the cumulative file holds entries the run did not read
C38_Witness ==
    /\ pc = "batch" /\ ~resume /\ start_idx = 0 /\ i = 0
    /\ processed_entries = <<>> /\ all_processed_entries = <<>>
    /\ processed_files[year].st = "ok"
    /\ processed_files[year].entries # <<>>
    /\ batch_files[year][1].st = "ok"
    /\ batch_files[year][1].entries # <<>>
    /\ cumulative_file.st = "ok" /\ cumulative_file.entries # <<>>

-----------------------------------------------------------------------------
(* The type of what analyze_entries_batch returns, under SpecReply *)

\* C39 as stated: every value analyze_entries_batch returns is None or an
\* array, possibly empty; it never returns a value that is not an array.
C39_ReturnsArrayOrNone ==
    (call.fn = "analyze" /\ call.st = "returned") =>
       \/ call.ret \in {"None", "empty"}
       \/ call.ret = "list" /\ call.value.t = "list"

====
